---- MODULE Spec2Model ----
(***************************************************************************)
(* Model of the triage-to-provider recommendation engine of the RutaSalud  *)
(* Streamlit application: text normaliser, provider directory cleaner,     *)
(* similarity matcher, correspondence table builder, recommendation facade *)
(* and geographic filter.                                                  *)
(*                                                                         *)
(* A Python str is a sequence of one-character strings.  A pandas cell     *)
(* that may be NaN/None is an option: <<>> is NaN, <<v>> holds v.          *)
(* Similarity scores are fixed-point integers, 10000 = 1.0.                *)
(* Coordinates are in 1/10000 degree, distances in metres.                 *)
(***************************************************************************)
EXTENDS Integers, Sequences, FiniteSets, TLC

VARIABLES
    pc,                  \* position of the program in the run of the specification
    match_in,            \* arguments of semantic_/fuzzy_match_services
    sim,                 \* similarity the scorer assigns to <<query, service>>
    match_out,           \* (servicios, scores) returned by the matcher
    df_sintomas,         \* triage combinations handed to build_correspondence_table
    df_prestadores,      \* provider directory (load_and_prepare_provider_data)
    params,              \* threshold, top_k, method
    df_corr,             \* correspondence table
    request,             \* arguments of the query functions
    recomendacion,       \* result of get_recommended_services
    providers_filtered,  \* result of filter_providers_by_service_and_location
    raw_df,              \* raw provider table handed to clean_providers_data
    servicios_prestadores, \* allow-list handed to clean_providers_data
    df_clean,            \* result of clean_providers_data
    merge_in,            \* df_main and df_urg handed to merge_provider_locations
    df_merged,           \* result of merge_provider_locations
    raw_text,            \* str handed to text_cleaning
    cleaned,             \* results of text_cleaning, one for each application
    columns,             \* column names of the sheet build_triage_combinations reads
    combinations,        \* outcome of build_triage_combinations
    source,              \* version of the main provider sheet on disk
    cache,               \* entries of the st.cache_data caches of the two loaders
    session,             \* the calls of the loaders under way, one for each session
    rules,               \* rows of the clinical rules sheet (Reglas_triage)
    session_state,       \* st.session_state of the triage page
    geo                  \* the call of get_coordinates_co under way

\* Variables of the matcher, the table builder, the query functions and the cleaner.
query_vars == <<match_in, sim, match_out, df_sintomas, df_prestadores, params, df_corr,
                request, recomendacion, providers_filtered, raw_df,
                servicios_prestadores, df_clean>>

\* Variables of the merge, the normaliser, the combination builder, the caches and
\* the triage page.
loader_vars == <<merge_in, df_merged, raw_text, cleaned, columns, combinations, source,
                 cache, session, rules, session_state, geo>>

vars == <<pc, query_vars, loader_vars>>

-----------------------------------------------------------------------------
(* Characters and the Python str methods the code uses.                    *)

\* The cased characters: upper case, lower case, and for each the lower-case letter that
\* unicodedata.normalize("NFD", c) leaves once the characters of category Mn are removed.
Upper ==
    <<"A", "B", "C", "D", "E", "F", "G", "H", "I", "J", "K", "L", "M", "N", "O", "P", "Q",
      "R", "S", "T", "U", "V", "W", "X", "Y", "Z", "Á", "É", "Í", "Ó", "Ú", "Ñ", "Ü">>
Lower ==
    <<"a", "b", "c", "d", "e", "f", "g", "h", "i", "j", "k", "l", "m", "n", "o", "p", "q",
      "r", "s", "t", "u", "v", "w", "x", "y", "z", "á", "é", "í", "ó", "ú", "ñ", "ü">>
Base ==
    <<"a", "b", "c", "d", "e", "f", "g", "h", "i", "j", "k", "l", "m", "n", "o", "p", "q",
      "r", "s", "t", "u", "v", "w", "x", "y", "z", "a", "e", "i", "o", "u", "n", "u">>

Range(s) == {s[i] : i \in 1..Len(s)}
IndexOf(s, c) == CHOOSE i \in 1..Len(s) : s[i] = c

IsCased(c) == c \in Range(Upper) \cup Range(Lower)
IsSpace(c) == c \in {" ", "\t"}
IsLowerAZ(c) == c \in Range(Base)

LowerChar(c) == IF c \in Range(Upper) THEN Lower[IndexOf(Upper, c)] ELSE c
UpperChar(c) == IF c \in Range(Lower) THEN Upper[IndexOf(Lower, c)] ELSE c

\* unicodedata.normalize("NFD", c) with the category-Mn characters removed.
StripMark(c) ==
    IF c \in Range(Lower) THEN Base[IndexOf(Lower, c)]
    ELSE IF c \in Range(Upper) THEN UpperChar(Base[IndexOf(Upper, c)])
    ELSE c

\* encode("ascii", errors="ignore") keeps c: c is no accented letter and none of the
\* non-ASCII characters without a decomposition.
IsAscii(c) == StripMark(c) = c /\ c \notin {"ø", "¿", "¡"}

\* Mutant of PyLower: str.capitalize().
PyCapitalize(s) ==
    [i \in 1..Len(s) |-> IF i = 1 THEN UpperChar(s[i]) ELSE LowerChar(s[i])]

PyLower(s) == [i \in 1..Len(s) |-> LowerChar(s[i])]
PyUpper(s) == [i \in 1..Len(s) |-> UpperChar(s[i])]

\* str.title(): a cased character is upper-cased after an uncased one, lower-cased after a
\* cased one.
PyTitle(s) ==
    [i \in 1..Len(s) |->
        IF i > 1 /\ IsCased(s[i - 1]) THEN LowerChar(s[i]) ELSE UpperChar(s[i])]

RECURSIVE LStrip(_)
LStrip(s) == IF s # <<>> /\ IsSpace(Head(s)) THEN LStrip(Tail(s)) ELSE s

RECURSIVE RStrip(_)
RStrip(s) ==
    IF s # <<>> /\ IsSpace(s[Len(s)]) THEN RStrip(SubSeq(s, 1, Len(s) - 1)) ELSE s

PyStrip(s) == RStrip(LStrip(s))

\* "sub in s", pandas str.contains(sub) for a literal sub.
StrContains(s, sub) ==
    \E i \in 0..(Len(s) - Len(sub)) : SubSeq(s, i + 1, i + Len(sub)) = sub

\* s.replace(" ", "_") and the like, for one-character old and new.
ReplaceChar(s, old, new) == [i \in 1..Len(s) |-> IF s[i] = old THEN new ELSE s[i]]

\* Mutant of SubSpaceRuns: re.sub(r" +", rep, s).
RECURSIVE SubBlankRuns(_, _)
SubBlankRuns(s, rep) ==
    IF s = <<>> THEN <<>>
    ELSE IF Head(s) = " " /\ Len(s) > 1 /\ s[2] = " " THEN SubBlankRuns(Tail(s), rep)
    ELSE IF Head(s) = " " THEN rep \o SubBlankRuns(Tail(s), rep)
    ELSE <<Head(s)>> \o SubBlankRuns(Tail(s), rep)

\* re.sub(r"\s+", rep, s): every maximal run of whitespace becomes rep.
RECURSIVE SubSpaceRuns(_, _)
SubSpaceRuns(s, rep) ==
    IF s = <<>> THEN <<>>
    ELSE IF IsSpace(Head(s)) THEN rep \o SubSpaceRuns(LStrip(s), rep)
    ELSE <<Head(s)>> \o SubSpaceRuns(Tail(s), rep)

\* Option cells: pd.isna / notnull.
NaN == <<>>
Cell(v) == <<v>>
IsNa(cell) == cell = <<>>
Val(cell) == cell[1]

-----------------------------------------------------------------------------
(* utils/general_utils.py                                                  *)

\* Lines 29-52 of text_cleaning, on a str.
TextCleaningStr(text) ==
    LET lowered == PyLower(text)
        nfd == [i \in 1..Len(lowered) |-> StripMark(lowered[i])]
        ascii == SelectSeq(nfd, IsAscii)
        kept == [i \in 1..Len(ascii) |->
                    IF \/ IsLowerAZ(ascii[i]) \/ IsSpace(ascii[i])
                       \/ ascii[i] \in {"0", "1", "2", "3", "4", "5", "6", "7", "8", "9"}
                    THEN ascii[i] ELSE " "]
        single == SubSpaceRuns(kept, <<" ">>)
    IN  ReplaceChar(PyStrip(single), " ", "_")

\* text_cleaning on a cell: NaN/None is returned as it is.
text_cleaning(text) == IF IsNa(text) THEN text ELSE Cell(TextCleaningStr(Val(text)))

-----------------------------------------------------------------------------
(* String literals and cell values.                                        *)

\* String literals of the source: markers of the triage-level prefilter, the fallback
\* services, the special categories, the triage levels, and service ids of the
\* directory cleaner.
Lit ==
    [
     urgencias |-> <<"u", "r", "g", "e", "n", "c", "i", "a", "s">>,
     consulta |-> <<"c", "o", "n", "s", "u", "l", "t", "a">>,
     cirugia |-> <<"c", "i", "r", "u", "g", "i", "a">>,
     urgencias_medico_general |-> <<"u", "r", "g", "e", "n", "c", "i", "a", "s", "_", "m",
       "e", "d", "i", "c", "o", "_", "g", "e", "n", "e", "r", "a", "l">>,
     consulta_medicina_general |-> <<"c", "o", "n", "s", "u", "l", "t", "a", "_", "m", "e",
       "d", "i", "c", "i", "n", "a", "_", "g", "e", "n", "e", "r", "a", "l">>,
     consulta_cirugia_general |-> <<"c", "o", "n", "s", "u", "l", "t", "a", "_", "c", "i",
       "r", "u", "g", "i", "a", "_", "g", "e", "n", "e", "r", "a", "l">>,
     urgencia_cirugia_plastica |-> <<"u", "r", "g", "e", "n", "c", "i", "a", "_", "c", "i",
       "r", "u", "g", "i", "a", "_", "p", "l", "a", "s", "t", "i", "c", "a">>,
     consulta_neurologo |-> <<"c", "o", "n", "s", "u", "l", "t", "a", "_", "n", "e", "u",
       "r", "o", "l", "o", "g", "o">>,
     consulta_no_programada |-> <<"c", "o", "n", "s", "u", "l", "t", "a", "_", "n", "o",
       "_", "p", "r", "o", "g", "r", "a", "m", "a", "d", "a">>,
     salud_mental |-> <<"s", "a", "l", "u", "d", "_", "m", "e", "n", "t", "a", "l">>,
     oftalmologia |-> <<"o", "f", "t", "a", "l", "m", "o", "l", "o", "g", "i", "a">>,
     riesgo_biologico |-> <<"r", "i", "e", "s", "g", "o", "_", "b", "i", "o", "l", "o",
       "g", "i", "c", "o">>,
     neurologico_o_cabeza |-> <<"n", "e", "u", "r", "o", "l", "o", "g", "i", "c", "o", "_",
       "o", "_", "c", "a", "b", "e", "z", "a">>,
     T1 |-> <<"T", "1">>,
     T2 |-> <<"T", "2">>,
     T3 |-> <<"T", "3">>,
     T4 |-> <<"T", "4">>,
     T5 |-> <<"T", "5">>
    ]

\* Cell values of the sheets and values of the session state the specifications draw
\* from: names as clean_providers_data stores them, as the user types them (_typed) and
\* as the raw sheet holds them (_raw).
Data ==
    [
     psiquiatria |-> <<"p", "s", "i", "q", "u", "i", "a", "t", "r", "i", "a">>,
     digestivo |-> <<"d", "i", "g", "e", "s", "t", "i", "v", "o">>,
     presencial |-> <<"p", "r", "e", "s", "e", "n", "c", "i", "a", "l">>,
     virtual |-> <<"v", "i", "r", "t", "u", "a", "l">>,
     NAN |-> <<"N", "A", "N">>,
     Psiquiatria |-> <<"P", "s", "i", "q", "u", "i", "a", "t", "r", "i", "a">>,
     Antioquia |-> <<"A", "n", "t", "i", "o", "q", "u", "i", "a">>,
     Medellin |-> <<"M", "e", "d", "e", "l", "l", "i", "n">>,
     La_Ceja |-> <<"L", "a", " ", "C", "e", "j", "a">>,
     Valle_Del_Cauca |-> <<"V", "a", "l", "l", "e", " ", "D", "e", "l", " ", "C", "a", "u",
       "c", "a">>,
     Cali |-> <<"C", "a", "l", "i">>,
     sintoma_a |-> <<"s", "i", "n", "t", "o", "m", "a", "_", "a">>,
     sintoma_b |-> <<"s", "i", "n", "t", "o", "m", "a", "_", "b">>,
     ninguno |-> <<"n", "i", "n", "g", "u", "n", "o">>,
     ANTIOQUIA_typed |-> <<"A", "N", "T", "I", "O", "Q", "U", "I", "A">>,
     Medellin_typed |-> <<"M", "e", "d", "e", "l", "l", "í", "n">>,
     antioquia_typed |-> <<"a", "n", "t", "i", "o", "q", "u", "i", "a">>,
     medellin_typed |-> <<"m", "e", "d", "e", "l", "l", "i", "n">>,
     Valle_del_Cauca_typed |-> <<"V", "a", "l", "l", "e", " ", "d", "e", "l", " ", "C",
       "a", "u", "c", "a">>,
     la_ceja_typed |-> <<"l", "a", " ", "c", "e", "j", "a">>,
     Salud_mental_typed |-> <<"S", "a", "l", "u", "d", " ", "m", "e", "n", "t", "a", "l">>,
     Urgencias_Medico_General_raw |-> <<"U", "r", "g", "e", "n", "c", "i", "a", "s", " ",
       "M", "é", "d", "i", "c", "o", " ", "G", "e", "n", "e", "r", "a", "l">>,
     Consulta_No_Programada_raw |-> <<"C", "o", "n", "s", "u", "l", "t", "a", " ", "N",
       "o", " ", "P", "r", "o", "g", "r", "a", "m", "a", "d", "a">>,
     Laboratorio_Clinico_raw |-> <<"L", "a", "b", "o", "r", "a", "t", "o", "r", "i", "o",
       " ", "C", "l", "í", "n", "i", "c", "o">>,
     ANTIOQUIA_raw |-> <<"A", "N", "T", "I", "O", "Q", "U", "I", "A">>,
     MEDELLIN_raw |-> <<"M", "E", "D", "E", "L", "L", "I", "N">>,
     bogota_dc_raw |-> <<"b", "o", "g", "o", "t", "á", " ", "d", ".", "c", ".">>,
     Colombia |-> <<"C", "o", "l", "o", "m", "b", "i", "a">>,
     Medicina_General |-> <<"M", "e", "d", "i", "c", "i", "n", "a", " ", "G", "e", "n",
       "e", "r", "a", "l">>,
     Nariz_Oidos_raw |-> <<"N", "a", "r", "i", "z", "/", "O", "í", "d", "o", "s">>,
     Piel_raw |-> <<"P", "i", "e", "l", " ", "-">>,
     Dolor_raw |-> <<"D", "o", "l", "o", "r">>,
     Ninguno_raw |-> <<"N", "i", "n", "g", "u", "n", "o">>,
     Presencial_raw |-> <<"P", "r", "e", "s", "e", "n", "c", "i", "a", "l">>,
     Psiquiatria_raw |-> <<"P", "s", "i", "q", "u", "i", "a", "t", "r", "í", "a">>
    ]

-----------------------------------------------------------------------------
(* utils/matching_utils/semantic_matching.py                               *)

Min(a, b) == IF a < b THEN a ELSE b

\* s[:n] for n >= 0.
Take(s, n) == SubSeq(s, 1, Min(n, Len(s)))

\* round(x, 3): the nearest multiple of 0.001 (scores never lie on a half).
Round3(x) == ((x + 5) \div 10) * 10

\* Mutant of InsertDesc: an unstable sort that puts r before the elements of equal score.
InsertDescUnstable(r, rs) ==
    LET n == Cardinality({i \in 1..Len(rs) : rs[i].score > r.score})
    IN  SubSeq(rs, 1, n) \o <<r>> \o SubSeq(rs, n + 1, Len(rs))

\* Where sorted(..., key=score, reverse=True) puts r among rs, already sorted: after every
\* element that scores at least as much (the sort is stable).
InsertDesc(r, rs) ==
    LET n == Cardinality({i \in 1..Len(rs) : rs[i].score >= r.score})
    IN  SubSeq(rs, 1, n) \o <<r>> \o SubSeq(rs, n + 1, Len(rs))

\* sorted(results, key=lambda x: x[1], reverse=True)
RECURSIVE SortedByScoreDesc(_)
SortedByScoreDesc(rs) ==
    IF rs = <<>> THEN <<>>
    ELSE InsertDesc(rs[Len(rs)], SortedByScoreDesc(SubSeq(rs, 1, Len(rs) - 1)))

\* list(dict.fromkeys(xs)): the first occurrence of each element, in order.
RECURSIVE DictFromKeys(_)
DictFromKeys(xs) ==
    IF xs = <<>> THEN <<>>
    ELSE LET before == DictFromKeys(SubSeq(xs, 1, Len(xs) - 1))
         IN  IF xs[Len(xs)] \in Range(before) THEN before ELSE Append(before, xs[Len(xs)])

\* The scorer's answer for (query, service): util.cos_sim of the two embeddings, or
\* fuzz.token_sort_ratio.  It is a function of the two texts; which function is not the
\* repository's business, so sim ranges over all of them.
Similarity(especialidad, servicio) == sim[<<especialidad, servicio>>]

\* Every candidate with its similarity, in candidate order.
Scored(especialidad, servicios_disponibles) ==
    [i \in 1..Len(servicios_disponibles) |->
        [servicio |-> servicios_disponibles[i],
         score |-> Similarity(especialidad, servicios_disponibles[i])]]

\* results of semantic_match_services after the sort and the [:top_k].
SemanticResults(especialidad, servicios_disponibles, threshold, top_k) ==
    LET above(r) == r.score >= threshold
        results == SelectSeq(Scored(especialidad, servicios_disponibles), above)
    IN  Take(SortedByScoreDesc(results), top_k)

\* process.extract(query, choices, scorer, limit): the limit best choices, best first,
\* equal scores in choice order.
ProcessExtract(especialidad, servicios_disponibles, limit) ==
    Take(SortedByScoreDesc(Scored(especialidad, servicios_disponibles)), limit)

\* good_matches of fuzzy_match_services after the sort and the [:top_k].
FuzzyResults(especialidad, servicios_disponibles, threshold, top_k) ==
    LET above(m) == m.score >= threshold
        matches == ProcessExtract(especialidad, servicios_disponibles, top_k * 2)
    IN  Take(SortedByScoreDesc(SelectSeq(matches, above)), top_k)

\* The two lists both matchers return from their results.
Returned(results) ==
    [servicios |-> DictFromKeys([i \in 1..Len(results) |-> results[i].servicio]),
     scores |-> [i \in 1..Len(results) |-> Round3(results[i].score)]]

semantic_match_services(especialidad, servicios_disponibles, threshold, top_k) ==
    Returned(SemanticResults(especialidad, servicios_disponibles, threshold, top_k))

fuzzy_match_services(especialidad, servicios_disponibles, threshold, top_k) ==
    Returned(FuzzyResults(especialidad, servicios_disponibles, threshold, top_k))

-----------------------------------------------------------------------------
(* Bounds and input sets.                                                  *)

MaxCand == 3        \* longest candidate list handed to the matcher alone
MaxTopK == 2        \* largest top_k

SeqsUpTo(S, n) == UNION {[1..k -> S] : k \in 0..n}

Idle == <<>>        \* value of a variable the running specification does not use

QueryIdle ==
    /\ match_in = Idle /\ sim = Idle /\ match_out = Idle /\ df_sintomas = Idle
    /\ df_prestadores = Idle /\ params = Idle /\ df_corr = Idle /\ request = Idle
    /\ recomendacion = Idle /\ providers_filtered = Idle /\ raw_df = Idle
    /\ servicios_prestadores = Idle /\ df_clean = Idle

LoaderIdle ==
    /\ merge_in = Idle /\ df_merged = Idle /\ raw_text = Idle
    /\ cleaned = Idle /\ columns = Idle /\ combinations = Idle /\ source = Idle
    /\ cache = Idle /\ session = Idle
    /\ rules = Idle /\ session_state = Idle /\ geo = Idle

Methods == {"semantic", "fuzzy"}
\* Similarities around the 0.7 of pages/2_recomendacion.py.  Cosine similarities can be
\* negative; token_sort_ratio / 100 lies in [0, 1].
ScoresOf(method) ==
    IF method = "semantic" THEN {-1500, 6996, 7004} ELSE {0, 6996, 7004}

-----------------------------------------------------------------------------
(* SpecMatch: one call of the matcher on an arbitrary candidate list.      *)

InitMatch ==
    /\ pc = "match"
    /\ LoaderIdle
    /\ match_in \in [especialidad : {Data.psiquiatria},
                     servicios_disponibles :
                         SeqsUpTo({Lit.urgencias_medico_general,
                                   Lit.consulta_cirugia_general,
                                   Lit.urgencia_cirugia_plastica}, MaxCand)]
    /\ params \in [threshold : {0, 7000, 10100}, top_k : 1..MaxTopK, method : Methods]
    /\ sim \in [{match_in.especialidad} \X Range(match_in.servicios_disponibles)
                    -> ScoresOf(params.method)]
    /\ match_out = Idle
    /\ df_sintomas = Idle /\ df_prestadores = Idle /\ df_corr = Idle
    /\ request = Idle /\ recomendacion = Idle /\ providers_filtered = Idle
    /\ raw_df = Idle /\ servicios_prestadores = Idle /\ df_clean = Idle

SemanticMatch ==
    /\ pc = "match"
    /\ params.method = "semantic"
    /\ match_out' = semantic_match_services(match_in.especialidad,
                        match_in.servicios_disponibles, params.threshold, params.top_k)
    /\ pc' = "matched"
    /\ UNCHANGED loader_vars
    /\ UNCHANGED <<match_in, sim, df_sintomas, df_prestadores, params, df_corr, request,
                   recomendacion, providers_filtered, raw_df, servicios_prestadores,
                   df_clean>>

FuzzyMatch ==
    /\ pc = "match"
    /\ params.method # "semantic"
    /\ match_out' = fuzzy_match_services(match_in.especialidad,
                        match_in.servicios_disponibles, params.threshold, params.top_k)
    /\ pc' = "matched"
    /\ UNCHANGED loader_vars
    /\ UNCHANGED <<match_in, sim, df_sintomas, df_prestadores, params, df_corr, request,
                   recomendacion, providers_filtered, raw_df, servicios_prestadores,
                   df_clean>>

NextMatch == SemanticMatch \/ FuzzyMatch

SpecMatch == InitMatch /\ [][NextMatch]_vars

\* C7: with threshold 0.0 the matcher returns min(top_k, number of distinct candidates)
\* services, and with threshold 1.01 it returns none, for both strategies and every
\* candidate list, lists that repeat a service id included.
C7_MatchedCount ==
    pc = "matched" =>
        /\ params.threshold = 0 =>
              Len(match_out.servicios) =
                  Min(params.top_k, Cardinality(Range(match_in.servicios_disponibles)))
        /\ params.threshold = 10100 => match_out.servicios = <<>>

\* C8: the matcher returns its results in non-increasing score order, at most top_k of
\* them, each with a similarity of at least the threshold, and two results of equal
\* similarity in the order they had in the candidate list.  The returned scores are the
\* similarities rounded to three decimals.
C8_ResultsOrdered ==
    pc = "matched" =>
        LET q == match_in.especialidad
            cands == match_in.servicios_disponibles
            servicios == match_out.servicios
            scores == match_out.scores
            FirstIndex(xs, x) ==
                CHOOSE i \in 1..Len(xs) : xs[i] = x /\ \A j \in 1..(i - 1) : xs[j] # x
            NonIncreasing(xs) == \A i, j \in 1..Len(xs) : i < j => xs[i] >= xs[j]
        IN  /\ NonIncreasing(scores)
            /\ NonIncreasing([i \in 1..Len(servicios) |-> Similarity(q, servicios[i])])
            /\ Len(scores) <= params.top_k
            /\ Len(servicios) <= Len(scores)
            /\ \A i \in 1..Len(servicios) :
                  /\ servicios[i] \in Range(cands)
                  /\ Similarity(q, servicios[i]) >= params.threshold
                  /\ Round3(Similarity(q, servicios[i])) \in Range(scores)
            /\ \A i, j \in 1..Len(servicios) :
                  (i < j /\ Similarity(q, servicios[i]) = Similarity(q, servicios[j]))
                      => FirstIndex(cands, servicios[i]) < FirstIndex(cands, servicios[j])

\* Reached: a call that returns two services of equal similarity, truncated by top_k.
C8_Witness ==
    /\ pc = "matched"
    /\ Len(match_out.servicios) = 2
    /\ Len(match_in.servicios_disponibles) > params.top_k
    /\ Similarity(match_in.especialidad, match_out.servicios[1])
           = Similarity(match_in.especialidad, match_out.servicios[2])
    /\ params.threshold = 7000

-----------------------------------------------------------------------------
(* utils/matching_utils/triage_matching.py                                 *)

special_categories == {Lit.salud_mental, Lit.oftalmologia, Lit.riesgo_biologico, Lit.neurologico_o_cabeza}

\* str(x) of a cell: a str is itself, NaN is "nan".
PyStr(cell) == IF IsNa(cell) THEN <<"n", "a", "n">> ELSE Val(cell)

\* The rows at the index set I, in order.
RowsAt(rows, I) ==
    [k \in 1..Cardinality(I) |->
        rows[CHOOSE i \in I : Cardinality({j \in I : j < i}) = k - 1]]

\* Mutant of DropDuplicates: every row is kept.
KeepDuplicates(rows, keys) == rows

\* DataFrame.drop_duplicates(subset=...), keys[i] being the subset columns of rows[i]: the
\* first row of each key, in order.
DropDuplicates(rows, keys) ==
    RowsAt(rows, {i \in 1..Len(rows) : \A j \in 1..(i - 1) : keys[j] # keys[i]})

ServiceKeys(ps) == [i \in 1..Len(ps) |-> ps[i].servicio_prestador]
CombinationKeys(rs) ==
    [i \in 1..Len(rs) |->
        <<rs[i].categoria, rs[i].nivel_triage, rs[i].modalidad, rs[i].especialidad>>]
EntryKeys(es) ==
    [i \in 1..Len(es) |->
        <<es[i].categoria, es[i].nivel_triage, es[i].modalidad_requerida,
          es[i].especialidad_requerida>>]

\* Mutant of WithMarker: the whole directory, whatever the marker.
AnyMarker(prestadores, marker) == prestadores

\* df_prestadores[df_prestadores["servicio_prestador"].str.contains(marker, na=False)]
WithMarker(prestadores, marker) ==
    LET has(p) == StrContains(p.servicio_prestador, marker)
    IN  SelectSeq(prestadores, has)

\* Mutant of Subset: the providers of the level without either drop_duplicates.
SubsetAllRows(prestadores, nivel) ==
    LET byLevel == IF nivel \in {Lit.T1, Lit.T2, Lit.T3} THEN WithMarker(prestadores, Lit.urgencias)
                   ELSE IF nivel \in {Lit.T4, Lit.T5} THEN WithMarker(prestadores, Lit.consulta)
                   ELSE prestadores
    IN  IF nivel = Lit.T1 THEN byLevel \o WithMarker(prestadores, Lit.cirugia) ELSE byLevel

\* Step 1 of the loop body: the providers whose service suits the triage level, one row
\* per service.
Subset(prestadores, nivel) ==
    LET byLevel == IF nivel \in {Lit.T1, Lit.T2, Lit.T3} THEN WithMarker(prestadores, Lit.urgencias)
                   ELSE IF nivel \in {Lit.T4, Lit.T5} THEN WithMarker(prestadores, Lit.consulta)
                   ELSE prestadores
        concat == byLevel \o WithMarker(prestadores, Lit.cirugia)
        withSurgery == IF nivel = Lit.T1 THEN DropDuplicates(concat, ServiceKeys(concat))
                       ELSE byLevel
    IN  DropDuplicates(withSurgery, ServiceKeys(withSurgery))

\* subset["servicio_prestador"].tolist()
ServiceList(subset) == [i \in 1..Len(subset) |-> subset[i].servicio_prestador]

\* The matcher the configured method selects.
MatchServices(method, text, servicios_disponibles, threshold, top_k) ==
    IF method = "semantic"
    THEN semantic_match_services(text, servicios_disponibles, threshold, top_k)
    ELSE fuzzy_match_services(text, servicios_disponibles, threshold, top_k)

\* Mutant of CategoryTier: the category tier for the combinations of modality
\* presencial only.
CategoryTierInPerson(row, pool, threshold, top_k, method) ==
    IF row.categoria \in special_categories /\ row.modalidad = Data.presencial
    THEN LET m == MatchServices(method, row.categoria, pool, threshold, top_k)
         IN  [servicios |-> m.servicios, scores |-> m.scores,
              tipo |-> IF m.servicios # <<>>
                       THEN (IF method = "semantic" THEN "ctg_semantic_match"
                             ELSE "ctg_fuzzy_match")
                       ELSE "sin_match"]
    ELSE [servicios |-> <<>>, scores |-> <<>>, tipo |-> "unset"]

\* Step 2.1: the category tier.
CategoryTier(row, pool, threshold, top_k, method) ==
    IF row.categoria \in special_categories
    THEN LET m == MatchServices(method, row.categoria, pool, threshold, top_k)
         IN  [servicios |-> m.servicios, scores |-> m.scores,
              tipo |-> IF m.servicios # <<>>
                       THEN (IF method = "semantic" THEN "ctg_semantic_match"
                             ELSE "ctg_fuzzy_match")
                       ELSE "sin_match"]
    ELSE [servicios |-> <<>>, scores |-> <<>>, tipo |-> "unset"]

\* Step 2.2: the specialty tier, on what the category tier left.
SpecialtyTier(tier1, especialidad, pool, threshold, top_k, method) ==
    IF especialidad # <<>> /\ tier1.servicios = <<>>
    THEN LET m == MatchServices(method, especialidad, pool, threshold, top_k)
         IN  [servicios |-> m.servicios, scores |-> m.scores,
              tipo |-> IF m.servicios # <<>>
                       THEN (IF method = "semantic" THEN "semantic_match" ELSE "fuzzy_match")
                       ELSE "sin_match"]
    ELSE tier1

\* Mutant of Fallback: the default service without the assignment tipo = "fallback".
FallbackKeepsTipo(tier2, nivel) ==
    IF tier2.servicios = <<>>
    THEN [servicios |-> IF nivel \in {Lit.T1, Lit.T2, Lit.T3} THEN <<Lit.urgencias_medico_general>>
                        ELSE <<Lit.consulta_medicina_general>>,
          scores |-> <<10000>>,
          tipo |-> tier2.tipo]
    ELSE tier2

\* Step 3: the fallback when no tier matched.
Fallback(tier2, nivel) ==
    IF tier2.servicios = <<>>
    THEN [servicios |-> IF nivel \in {Lit.T1, Lit.T2, Lit.T3} THEN <<Lit.urgencias_medico_general>>
                        ELSE <<Lit.consulta_medicina_general>>,
          scores |-> <<10000>>,
          tipo |-> "fallback"]
    ELSE tier2

\* The body of the main loop: the entry appended for one combination.
Entry(row, prestadores, threshold, top_k, method) ==
    LET especialidad == PyStrip(PyStr(row.especialidad))
        pool == ServiceList(Subset(prestadores, row.nivel_triage))
        tier1 == CategoryTier(row, pool, threshold, top_k, method)
        tier2 == SpecialtyTier(tier1, especialidad, pool, threshold, top_k, method)
        final == Fallback(tier2, row.nivel_triage)
    IN  [categoria |-> row.categoria,
         nivel_triage |-> row.nivel_triage,
         modalidad_requerida |-> row.modalidad,
         especialidad_requerida |-> especialidad,
         servicios_sugeridos |-> final.servicios,
         scores |-> final.scores,
         tipo_coincidencia |-> final.tipo]

build_correspondence_table(sintomas, prestadores, threshold, top_k, method) ==
    LET unique == DropDuplicates(sintomas, CombinationKeys(sintomas))
        correspondencias ==
            [i \in 1..Len(unique) |-> Entry(unique[i], prestadores, threshold, top_k, method)]
    IN  DropDuplicates(correspondencias, EntryKeys(correspondencias))

-----------------------------------------------------------------------------
(* utils/matching_utils/recommendation_engine.py: get_recommended_services *)

\* What a call that raises KeyError leaves in place of a result.
KeyError == [raises |-> "KeyError"]

\* The payload of the else branch.
FallbackPayload(nivel_triage) ==
    IF nivel_triage \in {Lit.T1, Lit.T2, Lit.T3}
    THEN [servicios |-> <<Lit.urgencias_medico_general>>, scores |-> <<10000>>,
          tipo |-> "fallback"]
    ELSE [servicios |-> <<Lit.consulta_medicina_general>>, scores |-> <<10000>>,
          tipo |-> "fallback"]

\* A table without entries is the pd.DataFrame([]) of build_correspondence_table: it has
\* no columns, and df_correspondencia["categoria"] raises KeyError.
get_recommended_services(categoria, nivel_triage, especialidad, df_correspondencia) ==
    LET especialidad_norm == PyStrip(PyLower(especialidad))
        mask(e) == /\ e.categoria = categoria
                   /\ e.nivel_triage = nivel_triage
                   /\ e.especialidad_requerida = especialidad_norm
        matches == SelectSeq(df_correspondencia, mask)
    IN  IF df_correspondencia = <<>> THEN KeyError
        ELSE IF matches # <<>>
        THEN [servicios |-> matches[1].servicios_sugeridos,
              scores |-> matches[1].scores,
              tipo |-> matches[1].tipo_coincidencia]
        ELSE FallbackPayload(nivel_triage)

-----------------------------------------------------------------------------
(* Provider rows and triage combinations the specifications draw from.     *)

MaxProviders == 2   \* most rows of a provider directory
MaxCombos == 2      \* most rows of a triage combinations table

\* Coordinates in 1/10000 degree: a point, one 2 km north of it, one 80 km north of it.
PointUser == [lat |-> 62500, lng |-> -755700]
PointNear == [lat |-> 62680, lng |-> -755700]
PointFar == [lat |-> 69700, lng |-> -755700]

\* A row of the cleaned directory.  horario, telefono_fijo and telefono_celular are carried
\* along by every operation and are left out.
Provider(servicio, departamento, municipio, point, prioridad) ==
    [prestador |-> "IPS", sucursal |-> "Sede", departamento |-> departamento,
     municipio |-> municipio, direccion |-> "Calle 1", lat |-> point.lat,
     lng |-> point.lng, servicio_prestador |-> servicio,
     prioridad_recomendacion |-> prioridad]

\* A row of the triage combinations table (build_triage_combinations).
Combination(categoria, sintoma, nivel, modalidad, especialidad) ==
    [categoria |-> categoria, sintoma |-> sintoma, modificador |-> Data.ninguno,
     nivel_triage |-> nivel, modalidad |-> modalidad, especialidad |-> especialidad]

ComboRows ==
    {Combination(Lit.salud_mental, Data.sintoma_a, Lit.T1, Data.presencial,
                 Cell(Data.psiquiatria)),
     Combination(Lit.salud_mental, Data.sintoma_a, Lit.T4, Data.presencial, Cell(<<>>)),
     Combination(Data.digestivo, Data.sintoma_a, Lit.T3, Data.presencial,
                 Cell(Data.psiquiatria)),
     Combination(Data.digestivo, Data.sintoma_a, Lit.T5, Data.virtual, NaN),
     Combination(Data.digestivo, Data.sintoma_a, Data.NAN, Data.presencial, Cell(<<>>))}

\* Services of the directories, and similarities below and above the threshold 0.7.
CorrServices ==
    {Lit.urgencias_medico_general, Lit.consulta_cirugia_general, Lit.consulta_neurologo}
CorrScores == {3000, 8000}

\* The pairs (text, service) build_correspondence_table can ask the scorer about: the
\* category or the specialty of a combination, against a service of its pool.
RowTexts(row) ==
    ({row.categoria} \cap special_categories)
        \cup ({PyStrip(PyStr(row.especialidad))} \ {<<>>})

AskedPairs(sintomas, prestadores) ==
    UNION {RowTexts(sintomas[i])
               \X Range(ServiceList(Subset(prestadores, sintomas[i].nivel_triage))) :
           i \in 1..Len(sintomas)}

-----------------------------------------------------------------------------
(* SpecCorr: build_triage_correspondence_table over tables and directories. *)

Levels == {Lit.T1, Lit.T2, Lit.T3, Lit.T4, Lit.T5}

InitCorr ==
    /\ pc = "build"
    /\ LoaderIdle
    /\ df_sintomas \in SeqsUpTo(ComboRows, MaxCombos)
    /\ \E ss \in SeqsUpTo(CorrServices, MaxProviders) :
          df_prestadores =
              [i \in 1..Len(ss) |->
                  Provider(ss[i], Data.Antioquia, Data.Medellin, PointNear, 1)]
    /\ params \in [threshold : {7000}, top_k : {1, MaxTopK}, method : Methods]
    /\ sim \in [AskedPairs(df_sintomas, df_prestadores) -> CorrScores]
    /\ df_corr = Idle /\ request = Idle /\ recomendacion = Idle
    /\ match_in = Idle /\ match_out = Idle /\ providers_filtered = Idle
    /\ raw_df = Idle /\ servicios_prestadores = Idle /\ df_clean = Idle

\* build_triage_correspondence_table: the table of the combinations and the directory.
BuildCorrespondenceTable ==
    /\ pc = "build"
    /\ df_corr' = build_correspondence_table(df_sintomas, df_prestadores, params.threshold,
                                             params.top_k, params.method)
    /\ pc' = "built"
    /\ UNCHANGED loader_vars
    /\ UNCHANGED <<match_in, sim, match_out, df_sintomas, df_prestadores, params, request,
                   recomendacion, providers_filtered, raw_df, servicios_prestadores,
                   df_clean>>

NextCorr == BuildCorrespondenceTable

SpecCorr == InitCorr /\ [][NextCorr]_vars

\* C1: every entry build_correspondence_table produces has at least one suggested service
\* and a match type among the five final tags; 'sin_match' never reaches the table.
C1_EntryServed ==
    pc = "built" =>
        \A i \in 1..Len(df_corr) :
            /\ Len(df_corr[i].servicios_sugeridos) >= 1
            /\ df_corr[i].tipo_coincidencia \in
                   {"ctg_semantic_match", "ctg_fuzzy_match", "semantic_match",
                    "fuzzy_match", "fallback"}

\* Reached: a table with an entry whose category and specialty tiers both matched nothing
\* (it went through 'sin_match') next to an entry that the category tier served.
C1_Witness ==
    /\ pc = "built"
    /\ \E i, j \in 1..Len(df_corr) :
          /\ df_corr[i].tipo_coincidencia = "fallback"
          /\ df_corr[i].categoria \in special_categories
          /\ df_corr[i].especialidad_requerida # <<>>
          /\ Subset(df_prestadores, df_corr[i].nivel_triage) # <<>>
          /\ df_corr[j].tipo_coincidencia \in {"ctg_semantic_match", "ctg_fuzzy_match"}

\* C9: in every entry of the correspondence table the suggested services and the scores
\* have the same length, also when the directory offers one service many times.
C9_ParallelLists ==
    pc = "built" =>
        \A i \in 1..Len(df_corr) :
            Len(df_corr[i].servicios_sugeridos) = Len(df_corr[i].scores)

\* Reached: a directory that offers one service twice, and an entry that a matcher served
\* with that service.
C9_Witness ==
    /\ pc = "built"
    /\ \E a, b \in 1..Len(df_prestadores) :
          /\ a < b
          /\ df_prestadores[a].servicio_prestador = df_prestadores[b].servicio_prestador
          /\ \E i \in 1..Len(df_corr) :
                /\ df_corr[i].tipo_coincidencia # "fallback"
                /\ df_prestadores[a].servicio_prestador
                       \in Range(df_corr[i].servicios_sugeridos)

-----------------------------------------------------------------------------
(* SpecCallers: build_triage_correspondence_table as the recommendation page *)
(* calls it, over tables that may hold a combination once for each modality. *)

\* The call of pages/2_recomendacion.py, lines 83-85: threshold=0.7, method="semantic",
\* and the largest top_k.  The tables are those of SpecCorr with one more row to draw
\* from, the first combination asked for by video call.
InitCallers ==
    /\ pc = "build"
    /\ LoaderIdle
    /\ df_sintomas \in SeqsUpTo(ComboRows
                                    \cup {Combination(Lit.salud_mental, Data.sintoma_a,
                                                      Lit.T1, Data.virtual,
                                                      Cell(Data.psiquiatria))},
                                MaxCombos)
    /\ \E ss \in SeqsUpTo(CorrServices, MaxProviders) :
          df_prestadores =
              [i \in 1..Len(ss) |->
                  Provider(ss[i], Data.Antioquia, Data.Medellin, PointNear, 1)]
    /\ params = [threshold |-> 7000, top_k |-> MaxTopK, method |-> "semantic"]
    /\ sim \in [AskedPairs(df_sintomas, df_prestadores) -> CorrScores]
    /\ df_corr = Idle /\ request = Idle /\ recomendacion = Idle
    /\ match_in = Idle /\ match_out = Idle /\ providers_filtered = Idle
    /\ raw_df = Idle /\ servicios_prestadores = Idle /\ df_clean = Idle

SpecCallers == InitCallers /\ [][NextCorr]_vars

\* C25: every service a non-fallback entry suggests is of the pool of the entry's triage
\* level: its id contains 'urgencias' for T2 and T3, 'urgencias' or 'cirugia' for T1,
\* 'consulta' for T4 and T5; and the pool handed to the matcher holds no service id twice.
C25_ServicesOfLevelPool ==
    pc = "built" =>
        /\ \A i \in 1..Len(df_corr) :
               LET nivel == df_corr[i].nivel_triage
                   markers == IF nivel = Lit.T1 THEN {Lit.urgencias, Lit.cirugia}
                              ELSE IF nivel \in {Lit.T2, Lit.T3} THEN {Lit.urgencias}
                              ELSE {Lit.consulta}
               IN  df_corr[i].tipo_coincidencia # "fallback" /\ nivel \in Levels =>
                       \A k \in 1..Len(df_corr[i].servicios_sugeridos) :
                           \E marker \in markers :
                               StrContains(df_corr[i].servicios_sugeridos[k], marker)
        /\ \A nivel \in {df_corr[i].nivel_triage : i \in 1..Len(df_corr)} :
               LET subset == Subset(df_prestadores, nivel)
               IN  \A a, b \in 1..Len(subset) :
                       a < b => subset[a].servicio_prestador # subset[b].servicio_prestador

\* Reached: a directory that offers consulta_cirugia_general twice, and a T1 entry a
\* matcher served with it, a service that is in the pool for its 'cirugia' alone.
C25_Witness ==
    /\ pc = "built"
    /\ Len(df_prestadores) = 2
    /\ df_prestadores[1].servicio_prestador = Lit.consulta_cirugia_general
    /\ df_prestadores[2].servicio_prestador = Lit.consulta_cirugia_general
    /\ \E i \in 1..Len(df_corr) :
          /\ df_corr[i].nivel_triage = Lit.T1
          /\ df_corr[i].tipo_coincidencia # "fallback"
          /\ df_corr[i].servicios_sugeridos = <<Lit.consulta_cirugia_general>>

\* C27: the correspondence table has at most one entry for a (category, triage level,
\* modality, specialty), and exactly one for each such tuple of the input combinations.
C27_OneEntryPerCombination ==
    pc = "built" =>
        LET SameKeys(a, b) == /\ a.categoria = b.categoria
                              /\ a.nivel_triage = b.nivel_triage
                              /\ a.modalidad_requerida = b.modalidad_requerida
                              /\ a.especialidad_requerida = b.especialidad_requerida
            EntryOf(row, e) == /\ e.categoria = row.categoria
                               /\ e.nivel_triage = row.nivel_triage
                               /\ e.modalidad_requerida = row.modalidad
                               /\ e.especialidad_requerida = PyStrip(PyStr(row.especialidad))
        IN  /\ \A i, j \in 1..Len(df_corr) : i < j => ~SameKeys(df_corr[i], df_corr[j])
            /\ \A i \in 1..Len(df_sintomas) :
                   \E k \in 1..Len(df_corr) : EntryOf(df_sintomas[i], df_corr[k])
            /\ \A k \in 1..Len(df_corr) :
                   \E i \in 1..Len(df_sintomas) : EntryOf(df_sintomas[i], df_corr[k])

\* Reached: two combinations of one tuple, and their one entry, which a matcher served.
C27_Witness ==
    /\ pc = "built"
    /\ Len(df_sintomas) = 2
    /\ CombinationKeys(df_sintomas)[1] = CombinationKeys(df_sintomas)[2]
    /\ Len(df_corr) = 1
    /\ df_corr[1].tipo_coincidencia # "fallback"

\* C28: two entries of a correspondence table that agree on category, triage level and
\* specialty carry the same suggested services, scores and match type, so that
\* get_recommended_services, which takes the first row of that key whatever its modality,
\* gives for the key of an entry the answer of that entry.
C28_AnswerIndependentOfModality ==
    pc = "built" =>
        /\ \A i, j \in 1..Len(df_corr) :
               /\ df_corr[i].categoria = df_corr[j].categoria
               /\ df_corr[i].nivel_triage = df_corr[j].nivel_triage
               /\ df_corr[i].especialidad_requerida = df_corr[j].especialidad_requerida
               => /\ df_corr[i].servicios_sugeridos = df_corr[j].servicios_sugeridos
                  /\ df_corr[i].scores = df_corr[j].scores
                  /\ df_corr[i].tipo_coincidencia = df_corr[j].tipo_coincidencia
        /\ \A k \in 1..Len(df_corr) :
               get_recommended_services(df_corr[k].categoria, df_corr[k].nivel_triage,
                                        df_corr[k].especialidad_requerida, df_corr)
                   = [servicios |-> df_corr[k].servicios_sugeridos,
                      scores |-> df_corr[k].scores,
                      tipo |-> df_corr[k].tipo_coincidencia]

\* Reached: two entries that differ in the modality alone, both served by the category
\* tier.
C28_Witness ==
    /\ pc = "built"
    /\ Len(df_corr) = 2
    /\ df_corr[1].categoria = df_corr[2].categoria
    /\ df_corr[1].nivel_triage = df_corr[2].nivel_triage
    /\ df_corr[1].especialidad_requerida = df_corr[2].especialidad_requerida
    /\ df_corr[1].modalidad_requerida # df_corr[2].modalidad_requerida
    /\ df_corr[1].tipo_coincidencia = "ctg_semantic_match"

-----------------------------------------------------------------------------
(* utils/matching_utils/recommendation_engine.py:                          *)
(* filter_providers_by_service_and_location                                *)

None == <<>>

\* haversine of the source (R = 6371) between two of the Points, in metres: 2.002 km from
\* PointUser to PointNear, 80.060 km to PointFar, 78.059 km from PointNear to PointFar.
haversine(lat1, lon1, lat2, lon2) ==
    IF lat1 = lat2 /\ lon1 = lon2 THEN 0
    ELSE IF {lat1, lat2} = {PointUser.lat, PointNear.lat} THEN 2002
    ELSE IF {lat1, lat2} = {PointUser.lat, PointFar.lat} THEN 80060
    ELSE 78059

\* The mask of the location filter for one row.
LocationMask(p, departamento, municipio) ==
    /\ PyLower(p.departamento) = PyLower(departamento)
    /\ PyLower(p.municipio) = PyLower(municipio)

\* filtered after the service filter and the location filter.
Located(prestadores_final, servicios, departamento, municipio) ==
    LET offered(p) == p.servicio_prestador \in Range(servicios)
        here(p) == LocationMask(p, departamento, municipio)
    IN  SelectSeq(SelectSeq(prestadores_final, offered), here)

\* filtered["distancia_km"] = filtered.apply(haversine from the user, axis=1)
WithDistance(filtered, user_location) ==
    [i \in 1..Len(filtered) |->
        [distancia_km |-> haversine(user_location.lat, user_location.lng,
                                    filtered[i].lat, filtered[i].lng)] @@ filtered[i]]

\* Mutant of WithinDistance: no row is dropped for its distance.
AnyDistance(rows, max_distance_km) == rows

\* filtered[filtered["distancia_km"] <= max_distance_km]
WithinDistance(rows, max_distance_km) ==
    LET near(r) == r.distancia_km <= max_distance_km
    IN  SelectSeq(rows, near)

\* Where a stable ascending sort on distancia_km alone puts r among rs.
InsertByDistance(r, rs) ==
    LET n == Cardinality({i \in 1..Len(rs) : rs[i].distancia_km <= r.distancia_km})
    IN  SubSeq(rs, 1, n) \o <<r>> \o SubSeq(rs, n + 1, Len(rs))

\* Mutant of SortByDistancePriority: sort_values(by="distancia_km").
RECURSIVE SortByDistance(_)
SortByDistance(rows) ==
    IF rows = <<>> THEN <<>>
    ELSE InsertByDistance(rows[Len(rows)], SortByDistance(SubSeq(rows, 1, Len(rows) - 1)))

\* Row a sorts no later than row b on (distancia_km, prioridad_recomendacion).
NoLater(a, b) ==
    \/ a.distancia_km < b.distancia_km
    \/ a.distancia_km = b.distancia_km
       /\ a.prioridad_recomendacion <= b.prioridad_recomendacion

InsertByDistancePriority(r, rs) ==
    LET n == Cardinality({i \in 1..Len(rs) : NoLater(rs[i], r)})
    IN  SubSeq(rs, 1, n) \o <<r>> \o SubSeq(rs, n + 1, Len(rs))

\* sort_values(by=["distancia_km", "prioridad_recomendacion"], ascending=[True, True]):
\* a sort on several columns is stable.
RECURSIVE SortByDistancePriority(_)
SortByDistancePriority(rows) ==
    IF rows = <<>> THEN <<>>
    ELSE InsertByDistancePriority(rows[Len(rows)],
                                  SortByDistancePriority(SubSeq(rows, 1, Len(rows) - 1)))

\* Mutant of SortByPriority: the rows in the order of the directory.
Unsorted(rows) == {rows}

\* sort_values(by="prioridad_recomendacion"): the default quicksort fixes no order among
\* rows of equal priority, so every ascending arrangement is a possible result.
SortByPriority(rows) ==
    LET n == Len(rows)
        ascending(s) ==
            \A i, j \in 1..n :
                i < j => s[i].prioridad_recomendacion <= s[j].prioridad_recomendacion
        perms == {p \in [1..n -> 1..n] : \A i, j \in 1..n : i # j => p[i] # p[j]}
    IN  {s \in {[i \in 1..n |-> rows[p[i]]] : p \in perms} : ascending(s)}

\* The results the function can return, prestadores_final being the directory it loads.
filter_providers_by_service_and_location(servicios, departamento, municipio, prestadores_final, user_location, max_distance_km) ==
    LET departamento_t == PyTitle(TextCleaningStr(departamento))
        municipio_t == PyTitle(TextCleaningStr(municipio))
        filtered == Located(prestadores_final, servicios, departamento_t, municipio_t)
    IN  IF user_location # None /\ Len(filtered) > 0
        THEN {SortByDistancePriority(
                  WithinDistance(WithDistance(filtered, Val(user_location)),
                                 max_distance_km))}
        ELSE SortByPriority(filtered)

-----------------------------------------------------------------------------
(* SpecFilter: one call of filter_providers_by_service_and_location.       *)

\* Rows of the loaded directory: one town at three distances and two priorities, a second
\* service, and two places whose names have several words.
DirectoryRows ==
    {Provider(Lit.urgencias_medico_general, Data.Antioquia, Data.Medellin, PointUser, 2),
     Provider(Lit.urgencias_medico_general, Data.Antioquia, Data.Medellin, PointNear, 1),
     Provider(Lit.urgencias_medico_general, Data.Antioquia, Data.Medellin, PointNear, 2),
     Provider(Lit.urgencias_medico_general, Data.Antioquia, Data.Medellin, PointFar, 1),
     Provider(Lit.consulta_neurologo, Data.Antioquia, Data.Medellin, PointNear, 1),
     Provider(Lit.urgencias_medico_general, Data.Antioquia, Data.La_Ceja, PointNear, 1),
     Provider(Lit.urgencias_medico_general, Data.Valle_Del_Cauca, Data.Cali, PointNear, 1)}

\* Department and municipality as the session holds them.
TypedPlaces ==
    {[departamento |-> Data.ANTIOQUIA_typed, municipio |-> Data.Medellin_typed],
     [departamento |-> Data.antioquia_typed, municipio |-> Data.medellin_typed],
     [departamento |-> Data.Antioquia, municipio |-> Data.la_ceja_typed],
     [departamento |-> Data.Valle_del_Cauca_typed, municipio |-> Data.Cali]}

InitFilter ==
    /\ pc = "filter"
    /\ LoaderIdle
    /\ df_prestadores \in SeqsUpTo(DirectoryRows, MaxProviders)
    /\ \E place \in TypedPlaces :
          request \in [servicios : {<<Lit.urgencias_medico_general>>,
                                    <<Lit.consulta_neurologo, Lit.urgencias_medico_general>>},
                       departamento : {place.departamento},
                       municipio : {place.municipio},
                       user_location : {None, Cell(PointUser)},
                       max_distance_km : {0, 50000, 100000}]
    /\ providers_filtered = Idle
    /\ match_in = Idle /\ sim = Idle /\ match_out = Idle /\ df_sintomas = Idle
    /\ params = Idle /\ df_corr = Idle /\ recomendacion = Idle
    /\ raw_df = Idle /\ servicios_prestadores = Idle /\ df_clean = Idle

FilterProviders ==
    /\ pc = "filter"
    /\ providers_filtered' \in
           filter_providers_by_service_and_location(
               request.servicios, request.departamento, request.municipio,
               df_prestadores, request.user_location, request.max_distance_km)
    /\ pc' = "filtered"
    /\ UNCHANGED loader_vars
    /\ UNCHANGED <<match_in, sim, match_out, df_sintomas, df_prestadores, params, df_corr,
                   request, recomendacion, raw_df, servicios_prestadores, df_clean>>

NextFilter == FilterProviders

SpecFilter == InitFilter /\ [][NextFilter]_vars

\* C2: with a user location the returned list is ordered by distancia_km, and among rows
\* of equal distancia_km by prioridad_recomendacion, both non-decreasing.
C2_OrderedByDistance ==
    (pc = "filtered" /\ request.user_location # None) =>
        \A i, j \in 1..Len(providers_filtered) :
            i < j =>
                \/ providers_filtered[i].distancia_km < providers_filtered[j].distancia_km
                \/ /\ providers_filtered[i].distancia_km = providers_filtered[j].distancia_km
                   /\ providers_filtered[i].prioridad_recomendacion
                          <= providers_filtered[j].prioridad_recomendacion

\* Reached: two providers at the same distance returned in the order of their priorities,
\* which is not the order the directory lists them in.
C2_Witness ==
    /\ pc = "filtered"
    /\ request.user_location # None
    /\ Len(providers_filtered) = 2
    /\ providers_filtered[1].distancia_km = providers_filtered[2].distancia_km
    /\ providers_filtered[1].prioridad_recomendacion
           < providers_filtered[2].prioridad_recomendacion
    /\ df_prestadores[1].prioridad_recomendacion > df_prestadores[2].prioridad_recomendacion

\* C3: with a user location no returned provider is farther from the user than
\* max_distance_km, and with max_distance_km = 0 every returned provider is at the
\* user's coordinates.
C3_WithinMaxDistance ==
    (pc = "filtered" /\ request.user_location # None) =>
        \A i \in 1..Len(providers_filtered) :
            LET user == Val(request.user_location)
                p == providers_filtered[i]
            IN  /\ haversine(user.lat, user.lng, p.lat, p.lng) <= request.max_distance_km
                /\ request.max_distance_km = 0 => (p.lat = user.lat /\ p.lng = user.lng)

\* Reached: max_distance_km = 0, the provider at the user's coordinates returned and the
\* one of the same town and service 2 km away dropped.
C3_Witness ==
    /\ pc = "filtered"
    /\ request.user_location # None
    /\ request.max_distance_km = 0
    /\ Len(providers_filtered) = 1
    /\ Len(Located(df_prestadores, request.servicios,
                   PyTitle(TextCleaningStr(request.departamento)),
                   PyTitle(TextCleaningStr(request.municipio)))) = 2

\* C4: a provider stored under the title-cased accent-free form of the department and the
\* municipality the caller supplies passes the location filter, whether the names have
\* one word or several, in any letter case and with accents: it is returned when it
\* offers a requested service and no distance limit applies.
C4_LocationMatches ==
    (pc = "filtered" /\ request.user_location = None) =>
        LET StoredForm(name) == PyTitle([k \in 1..Len(name) |-> StripMark(name[k])])
        IN
        \A i \in 1..Len(df_prestadores) :
            (/\ df_prestadores[i].departamento = StoredForm(request.departamento)
             /\ df_prestadores[i].municipio = StoredForm(request.municipio)
             /\ df_prestadores[i].servicio_prestador \in Range(request.servicios))
                => df_prestadores[i] \in Range(providers_filtered)

\* C19: without a user location filter_providers_by_service_and_location returns the
\* providers that pass the service filter and the location filter, every one of them
\* whatever its distance, in ascending order of prioridad_recomendacion, and no row has a
\* distancia_km.
C19_PriorityOnly ==
    (pc = "filtered" /\ request.user_location = None) =>
        LET filtered == Located(df_prestadores, request.servicios,
                                PyTitle(TextCleaningStr(request.departamento)),
                                PyTitle(TextCleaningStr(request.municipio)))
            n == Len(providers_filtered)
        IN  /\ n = Len(filtered)
            /\ \E p \in [1..n -> 1..n] :
                  /\ \A i, j \in 1..n : i # j => p[i] # p[j]
                  /\ \A i \in 1..n : providers_filtered[i] = filtered[p[i]]
            /\ \A i, j \in 1..n :
                  i < j => providers_filtered[i].prioridad_recomendacion
                               <= providers_filtered[j].prioridad_recomendacion
            /\ \A i \in 1..n : "distancia_km" \notin DOMAIN providers_filtered[i]

\* Reached: a call without user location and with max_distance_km = 0 that returns a
\* provider 80 km from the other, ahead of it for its priority and against the order of
\* the directory.
C19_Witness ==
    /\ pc = "filtered"
    /\ request.user_location = None
    /\ request.max_distance_km = 0
    /\ Len(providers_filtered) = 2
    /\ providers_filtered[1] = df_prestadores[2]
    /\ providers_filtered[2] = df_prestadores[1]
    /\ providers_filtered[1].prioridad_recomendacion
           < providers_filtered[2].prioridad_recomendacion
    /\ providers_filtered[1].lat = PointFar.lat
    /\ providers_filtered[2].lat = PointUser.lat

-----------------------------------------------------------------------------
(* SpecE2E: the pipeline of pages/2_recomendacion.py: the correspondence   *)
(* table, get_recommended_services, then                                   *)
(* filter_providers_by_service_and_location.                               *)

\* A place as the directory stores it and as the session holds it.
SessionPlaces ==
    {[stored |-> <<Data.Antioquia, Data.Medellin>>,
      departamento |-> Data.ANTIOQUIA_typed, ciudad |-> Data.Medellin_typed],
     [stored |-> <<Data.Antioquia, Data.La_Ceja>>,
      departamento |-> Data.Antioquia, ciudad |-> Data.la_ceja_typed],
     [stored |-> <<Data.Valle_Del_Cauca, Data.Cali>>,
      departamento |-> Data.Valle_del_Cauca_typed, ciudad |-> Data.Cali]}

\* Directories of one place: an urgencias_medico_general provider 2 km from the user and
\* a consulta_* provider 80 km from the user, in either order.
ScenarioDirectories(departamento, municipio) ==
    LET near == Provider(Lit.urgencias_medico_general, departamento, municipio,
                         PointNear, 1)
        far(servicio) == Provider(servicio, departamento, municipio, PointFar, 1)
    IN  UNION {{<<near, far(servicio)>>, <<far(servicio), near>>} :
               servicio \in {Lit.consulta_medicina_general, Lit.consulta_cirugia_general}}

ScenarioRows ==
    {Combination(Lit.salud_mental, Data.sintoma_a, Lit.T1, Data.presencial,
                 Cell(Data.psiquiatria)),
     Combination(Data.digestivo, Data.sintoma_b, Lit.T5, Data.virtual, NaN)}

InitE2E ==
    /\ pc = "build"
    /\ LoaderIdle
    /\ df_sintomas \in SeqsUpTo(ScenarioRows, MaxCombos)
    /\ \E place \in SessionPlaces :
          /\ df_prestadores \in ScenarioDirectories(place.stored[1], place.stored[2])
          /\ request \in [selected_categoria : {Data.Salud_mental_typed},
                          decision_triage : Levels,
                          decision_especialidad : {Data.Psiquiatria},
                          departamento : {place.departamento},
                          ciudad : {place.ciudad},
                          ubicacion_usuario : {Cell(PointUser)},
                          max_distance_km : {50000}]
    /\ params \in [threshold : {7000}, top_k : {1, MaxTopK}, method : Methods]
    /\ sim \in [AskedPairs(df_sintomas, df_prestadores) -> CorrScores]
    /\ df_corr = Idle /\ recomendacion = Idle /\ providers_filtered = Idle
    /\ match_in = Idle /\ match_out = Idle
    /\ raw_df = Idle /\ servicios_prestadores = Idle /\ df_clean = Idle

\* Lines 69-70 and 89-94 of the page; an exception ends the run (lines 119-122).
GetRecommendedServices ==
    /\ pc = "built"
    /\ recomendacion' =
           get_recommended_services(TextCleaningStr(request.selected_categoria),
                                    request.decision_triage,
                                    request.decision_especialidad, df_corr)
    /\ pc' = IF recomendacion' = KeyError THEN "raised" ELSE "recommended"
    /\ UNCHANGED loader_vars
    /\ UNCHANGED <<match_in, sim, match_out, df_sintomas, df_prestadores, params, df_corr,
                   request, providers_filtered, raw_df, servicios_prestadores, df_clean>>

\* Lines 96-106 of the page.
FilterRecommended ==
    /\ pc = "recommended"
    /\ providers_filtered' \in
           filter_providers_by_service_and_location(
               recomendacion.servicios, request.departamento, request.ciudad,
               df_prestadores, request.ubicacion_usuario, request.max_distance_km)
    /\ pc' = "filtered"
    /\ UNCHANGED loader_vars
    /\ UNCHANGED <<match_in, sim, match_out, df_sintomas, df_prestadores, params, df_corr,
                   request, recomendacion, raw_df, servicios_prestadores, df_clean>>

NextE2E == BuildCorrespondenceTable \/ GetRecommendedServices \/ FilterRecommended

SpecE2E == InitE2E /\ [][NextE2E]_vars

\* C5: when no row of the correspondence table matches the queried category, triage level
\* and specialty, get_recommended_services returns exactly one service with score 1.0 and
\* type 'fallback': urgencias_medico_general for T1, T2, T3, consulta_medicina_general
\* for T4, T5.
C5_FallbackPayload ==
    (/\ pc \in {"recommended", "raised", "filtered"}
     /\ \A i \in 1..Len(df_corr) :
            ~(/\ df_corr[i].categoria = TextCleaningStr(request.selected_categoria)
              /\ df_corr[i].nivel_triage = request.decision_triage
              /\ df_corr[i].especialidad_requerida
                     = PyLower(request.decision_especialidad))) =>
        recomendacion =
            [servicios |-> IF request.decision_triage \in {Lit.T1, Lit.T2, Lit.T3}
                           THEN <<Lit.urgencias_medico_general>>
                           ELSE <<Lit.consulta_medicina_general>>,
             scores |-> <<10000>>,
             tipo |-> "fallback"]

\* C6: for a T1 query of category salud_mental and specialty psiquiatria, in a place whose
\* directory holds one urgencias_medico_general provider within max_distance_km and one
\* consulta_* provider beyond it, the pipeline returns exactly the near provider,
\* whatever the similarities.
C6_NearProviderOnly ==
    LET StoredForm(name) == PyTitle([k \in 1..Len(name) |-> StripMark(name[k])])
        user == Val(request.ubicacion_usuario)
        \* Rows stored under the session's place whose service contains marker and that lie
        \* within (near) or beyond (~near) max_distance_km.
        ScenarioProviders(marker, near) ==
            {i \in 1..Len(df_prestadores) :
                LET p == df_prestadores[i]
                IN  /\ StrContains(p.servicio_prestador, marker)
                    /\ p.departamento = StoredForm(request.departamento)
                    /\ p.municipio = StoredForm(request.ciudad)
                    /\ near <=> (haversine(user.lat, user.lng, p.lat, p.lng)
                                     <= request.max_distance_km)}
    IN
    (/\ pc \in {"filtered", "raised"}
     /\ request.decision_triage = Lit.T1
     /\ TextCleaningStr(request.selected_categoria) = Lit.salud_mental
     /\ PyLower(request.decision_especialidad) = Data.psiquiatria
     /\ Len(df_prestadores) = 2
     /\ Cardinality(ScenarioProviders(Lit.urgencias_medico_general, TRUE)) = 1
     /\ Cardinality(ScenarioProviders(Lit.consulta, FALSE)) = 1)
        => /\ pc = "filtered"
           /\ Len(providers_filtered) = 1
           /\ providers_filtered[1].servicio_prestador = Lit.urgencias_medico_general
           /\ providers_filtered[1].distancia_km <= request.max_distance_km

\* C18: get_recommended_services and filter_providers_by_service_and_location do not
\* raise because nothing matched: a query that no row of the correspondence table matches
\* gets the fallback payload, and a query whose service, location or distance filter leaves
\* no provider gets an empty list.
C18_NothingMatchedNoError ==
    LET queried(e) == /\ e.categoria = TextCleaningStr(request.selected_categoria)
                      /\ e.nivel_triage = request.decision_triage
                      /\ e.especialidad_requerida = PyLower(request.decision_especialidad)
        passes(p) ==
            /\ p.servicio_prestador \in Range(recomendacion.servicios)
            /\ LocationMask(p, PyTitle(TextCleaningStr(request.departamento)),
                            PyTitle(TextCleaningStr(request.ciudad)))
            /\ haversine(Val(request.ubicacion_usuario).lat,
                         Val(request.ubicacion_usuario).lng, p.lat, p.lng)
                   <= request.max_distance_km
    IN  /\ pc # "raised"
        /\ (pc \in {"recommended", "filtered"}
              /\ \A i \in 1..Len(df_corr) : ~queried(df_corr[i]))
               => recomendacion.tipo = "fallback"
        /\ (pc = "filtered" /\ \A i \in 1..Len(df_prestadores) : ~passes(df_prestadores[i]))
               => providers_filtered = <<>>

-----------------------------------------------------------------------------
(* utils/input_data/providers_utils.py: clean_providers_data               *)

\* The default of servicios_prestadores.
DefaultServicios ==
    <<
       <<"u", "r", "g", "e", "n", "c", "i", "a", "s", "_", "m", "e", "d", "i", "c", "o",
         "_", "g", "e", "n", "e", "r", "a", "l">>,
       <<"c", "o", "n", "s", "u", "l", "t", "a", "_", "n", "o", "_", "p", "r", "o", "g",
         "r", "a", "m", "a", "d", "a">>,
       <<"u", "r", "g", "e", "n", "c", "i", "a", "s", "_", "r", "i", "e", "s", "g", "o",
         "_", "b", "i", "o", "l", "o", "g", "i", "c", "o">>,
       <<"c", "o", "n", "s", "u", "l", "t", "a", "_", "o", "r", "t", "o", "p", "e", "d",
         "i", "s", "t", "a">>,
       <<"u", "r", "g", "e", "n", "c", "i", "a", "s", "_", "o", "r", "t", "o", "p", "e",
         "d", "i", "s", "t", "a">>,
       <<"c", "o", "n", "s", "u", "l", "t", "a", "_", "m", "e", "d", "i", "c", "i", "n",
         "a", "_", "f", "i", "s", "i", "c", "a", "_", "y", "_", "d", "e", "_", "d", "e",
         "p", "o", "r", "t", "e", "_", "l">>,
       <<"c", "o", "n", "s", "u", "l", "t", "a", "_", "o", "d", "o", "n", "t", "o", "l",
         "o", "g", "i", "c", "a">>,
       <<"c", "o", "n", "s", "u", "l", "t", "a", "_", "p", "r", "i", "o", "r", "i", "t",
         "a", "r", "i", "a", "_", "o", "d", "o", "n", "t", "o", "l", "o", "g", "i", "a",
         "_", "l">>,
       <<"u", "r", "g", "e", "n", "c", "i", "a", "s", "_", "o", "d", "o", "n", "t", "o",
         "l", "o", "g", "i", "a", "_", "l">>,
       <<"c", "o", "n", "s", "u", "l", "t", "a", "_", "p", "r", "i", "o", "r", "i", "t",
         "a", "r", "i", "a", "_", "d", "e", "_", "o", "f", "t", "a", "l", "m", "o", "l",
         "o", "g", "i", "a", "_", "l">>,
       <<"c", "o", "n", "s", "u", "l", "t", "a", "_", "o", "f", "t", "a", "l", "m", "o",
         "l", "o", "g", "i", "a">>,
       <<"c", "i", "r", "u", "g", "i", "a", "_", "o", "f", "t", "a", "l", "m", "o", "l",
         "o", "g", "i", "a">>,
       <<"u", "r", "g", "e", "n", "c", "i", "a", "s", "_", "o", "f", "t", "a", "l", "m",
         "o", "l", "o", "g", "i", "a">>,
       <<"c", "o", "n", "s", "u", "l", "t", "a", "_", "m", "e", "d", "i", "c", "i", "n",
         "a", "_", "i", "n", "t", "e", "r", "n", "a">>,
       <<"c", "o", "n", "s", "u", "l", "t", "a", "_", "m", "e", "d", "i", "c", "i", "n",
         "_", "i", "n", "t", "e", "r", "n", "a", "_", "t", "e", "l", "e", "m", "e", "d",
         "i", "c", "i", "n", "a", "_", "l">>,
       <<"c", "o", "n", "s", "u", "l", "t", "a", "_", "u", "r", "o", "l", "o", "g", "i",
         "a">>,
       <<"c", "i", "r", "u", "g", "i", "a", "_", "u", "r", "o", "l", "o", "g", "i", "a">>,
       <<"c", "o", "n", "s", "u", "l", "t", "a", "_", "o", "t", "o", "r", "r", "i", "n",
         "o", "l", "a", "r", "i", "n", "g", "o", "l", "o", "g", "i", "a">>,
       <<"c", "i", "r", "u", "g", "i", "a", "_", "o", "t", "o", "r", "r", "i", "n", "o",
         "l", "a", "r", "i", "n", "g", "o", "l", "o", "g", "i", "a">>,
       <<"c", "o", "n", "s", "u", "l", "t", "a", "_", "d", "e", "r", "m", "a", "t", "o",
         "l", "o", "g", "i", "a", "_", "t", "e", "l", "e", "m", "e", "d", "i", "c", "i",
         "n", "a", "_", "l">>,
       <<"c", "o", "n", "s", "u", "l", "t", "a", "_", "y", "_", "p", "r", "o", "c", "e",
         "d", "i", "m", "i", "e", "n", "t", "o", "s", "_", "d", "e", "r", "m", "a", "t",
         "o", "l", "o", "g", "i", "a">>,
       <<"u", "r", "g", "e", "n", "c", "i", "a", "_", "c", "i", "r", "u", "g", "i", "a",
         "_", "p", "l", "a", "s", "t", "i", "c", "a">>,
       <<"c", "o", "n", "s", "u", "l", "t", "a", "_", "p", "s", "i", "c", "o", "l", "o",
         "g", "o", "_", "y", "_", "t", "e", "r", "a", "p", "i", "a", "_", "p", "s", "i",
         "c", "o", "l", "o", "g", "i", "c", "a">>,
       <<"c", "o", "n", "s", "u", "l", "t", "a", "_", "n", "e", "u", "r", "o", "l", "o",
         "g", "o">>,
       <<"c", "o", "n", "s", "u", "l", "t", "a", "_", "c", "i", "r", "u", "j", "a", "n",
         "o", "_", "g", "e", "n", "e", "r", "a", "l">>
    >>

\* Step 6.5: the renaming table, as pairs <<id, new id>>.
RenameTable ==
    {
     <<
        <<"c", "o", "n", "s", "u", "l", "t", "a", "_", "m", "e", "d", "i", "c", "i", "n",
          "a", "_", "f", "i", "s", "i", "c", "a", "_", "y", "_", "d", "e", "_", "d", "e",
          "p", "o", "r", "t", "e", "_", "l">>,
        <<"c", "o", "n", "s", "u", "l", "t", "a", "_", "d", "e", "p", "o", "r", "t", "o",
          "l", "o", "g", "i", "a">>
     >>,
     <<
        <<"c", "o", "n", "s", "u", "l", "t", "a", "_", "p", "r", "i", "o", "r", "i", "t",
          "a", "r", "i", "a", "_", "o", "d", "o", "n", "t", "o", "l", "o", "g", "i", "a",
          "_", "l">>,
        <<"c", "o", "n", "s", "u", "l", "t", "a", "_", "p", "r", "i", "o", "r", "i", "t",
          "a", "r", "i", "a", "_", "o", "d", "o", "n", "t", "o", "l", "o", "g", "i", "a">>
     >>,
     <<
        <<"u", "r", "g", "e", "n", "c", "i", "a", "s", "_", "o", "d", "o", "n", "t", "o",
          "l", "o", "g", "i", "a", "_", "l">>,
        <<"u", "r", "g", "e", "n", "c", "i", "a", "s", "_", "o", "d", "o", "n", "t", "o",
          "l", "o", "g", "i", "a">>
     >>,
     <<
        <<"c", "o", "n", "s", "u", "l", "t", "a", "_", "p", "r", "i", "o", "r", "i", "t",
          "a", "r", "i", "a", "_", "d", "e", "_", "o", "f", "t", "a", "l", "m", "o", "l",
          "o", "g", "i", "a", "_", "l">>,
        <<"c", "o", "n", "s", "u", "l", "t", "a", "_", "p", "r", "i", "o", "r", "i", "t",
          "a", "r", "i", "a", "_", "o", "f", "t", "a", "l", "m", "o", "l", "o", "g", "i",
          "a">>
     >>,
     <<
        <<"c", "o", "n", "s", "u", "l", "t", "a", "_", "m", "e", "d", "i", "c", "i", "n",
          "_", "i", "n", "t", "e", "r", "n", "a", "_", "t", "e", "l", "e", "m", "e", "d",
          "i", "c", "i", "n", "a", "_", "l">>,
        <<"c", "o", "n", "s", "u", "l", "t", "a", "_", "m", "e", "d", "i", "c", "i", "n",
          "a", "_", "i", "n", "t", "e", "r", "n", "a", "_", "t", "e", "l", "e", "m", "e",
          "d", "i", "c", "i", "n", "a">>
     >>,
     <<
        <<"c", "o", "n", "s", "u", "l", "t", "a", "_", "d", "e", "r", "m", "a", "t", "o",
          "l", "o", "g", "i", "a", "_", "t", "e", "l", "e", "m", "e", "d", "i", "c", "i",
          "n", "a", "_", "l">>,
        <<"c", "o", "n", "s", "u", "l", "t", "a", "_", "d", "e", "r", "m", "a", "t", "o",
          "l", "o", "g", "i", "a", "_", "t", "e", "l", "e", "m", "e", "d", "i", "c", "i",
          "n", "a">>
     >>,
     <<
        <<"c", "o", "n", "s", "u", "l", "t", "a", "_", "n", "o", "_", "p", "r", "o", "g",
          "r", "a", "m", "a", "d", "a">>,
        <<"c", "o", "n", "s", "u", "l", "t", "a", "_", "m", "e", "d", "i", "c", "i", "n",
          "a", "_", "g", "e", "n", "e", "r", "a", "l">>
     >>,
     <<
        <<"c", "o", "n", "s", "u", "l", "t", "a", "_", "c", "i", "r", "u", "j", "a", "n",
          "o", "_", "g", "e", "n", "e", "r", "a", "l">>,
        <<"c", "o", "n", "s", "u", "l", "t", "a", "_", "c", "i", "r", "u", "g", "i", "a",
          "_", "g", "e", "n", "e", "r", "a", "l">>
     >>
    }

\* The default of prestadores_to_drop.
DefaultToDrop == <<"ORDEN DE COMPRA PUNTUAL", "IPS DE ATENCION INICIALPOR CONFIRMAR">>

\* A row of the raw sheet, under the column names step 1 gives it.  horario_habil,
\* telefono and telefono_celular are carried along unchanged and are left out.
RawRow(prestador, concepto, direccionamiento, lat, lng, departamento, municipio) ==
    [prestador |-> prestador, sucursal_prestador |-> Cell("Sede Norte"),
     departamento |-> departamento, municipio |-> municipio,
     direccion_domicilio |-> "Calle 1", valor_latitud |-> lat, valor_longitud |-> lng,
     concepto_factura |-> concepto, direccionamiento |-> direccionamiento]

\* Series.replace(table): an id of the table becomes its new id, any other stays.
Renamed(servicio) ==
    IF \E r \in RenameTable : r[1] = servicio
    THEN (CHOOSE r \in RenameTable : r[1] = servicio)[2]
    ELSE servicio

\* The list a call works with: the argument, or the default when it is None.
OrDefault(argument, default) == IF argument = None THEN default ELSE Val(argument)

\* Mutant of AllowedService: step 6 keeps every row that has a service label.
AnyService(cell, servicios) == ~IsNa(cell)

\* Step 6: df_clean["servicio_prestador"].isin(servicios_prestadores)
AllowedService(cell, servicios) == ~IsNa(cell) /\ Val(cell) \in Range(servicios)

\* Step 2: df_clean["prestador"].notnull() & ~df_clean["prestador"].isin(prestadores_to_drop)
ValidProvider(r, to_drop) == ~IsNa(r.prestador) /\ Val(r.prestador) \notin Range(to_drop)

\* Mutant of ValidCoordinates: step 4 without the two comparisons with 0.
NotNullCoordinates(r) == ~IsNa(r.valor_latitud) /\ ~IsNa(r.valor_longitud)

\* Step 4: the coordinates are not null and not 0.
ValidCoordinates(r) ==
    /\ ~IsNa(r.valor_latitud) /\ ~IsNa(r.valor_longitud)
    /\ Val(r.valor_latitud) # 0 /\ Val(r.valor_longitud) # 0

\* Mutant of KeptRows: the rows that pass steps 2 to 6, last row first.
KeptRowsReversed(df, to_drop, servicios) ==
    LET keep(r) == /\ ValidProvider(r, to_drop) /\ r.direccionamiento # 9
                   /\ ValidCoordinates(r)
                   /\ AllowedService(text_cleaning(r.concepto_factura), servicios)
        kept == SelectSeq(df, keep)
    IN  [i \in 1..Len(kept) |-> kept[Len(kept) + 1 - i]]

\* The rows steps 2, 3, 4 and 6 leave: each step is a boolean mask on the rows.
KeptRows(df, to_drop, servicios) ==
    LET valid(r) == ValidProvider(r, to_drop)
        routed(r) == r.direccionamiento # 9
        located(r) == ValidCoordinates(r)
        allowed(r) == AllowedService(text_cleaning(r.concepto_factura), servicios)
    IN  SelectSeq(SelectSeq(SelectSeq(SelectSeq(df, valid), routed), located), allowed)

\* Steps 5, 6.5, 7 and 8 on one row that was kept.
CleanRow(r) ==
    [prestador |-> r.prestador,
     sucursal |-> r.sucursal_prestador,
     departamento |-> PyTitle(r.departamento),
     municipio |-> PyTitle(r.municipio),
     direccion |-> r.direccion_domicilio,
     lat |-> r.valor_latitud,
     lng |-> r.valor_longitud,
     servicio_prestador |-> Renamed(Val(text_cleaning(r.concepto_factura))),
     prioridad_recomendacion |-> r.direccionamiento]

\* Steps 2 to 8 on the rows; step 1 renames columns only.  prestador, lat and lng stay
\* the cells they were.
clean_providers_data(df, servicios_arg, to_drop_arg) ==
    LET kept == KeptRows(df, OrDefault(to_drop_arg, DefaultToDrop),
                         OrDefault(servicios_arg, DefaultServicios))
    IN  [i \in 1..Len(kept) |-> CleanRow(kept[i])]

-----------------------------------------------------------------------------
(* SpecClean: one call of clean_providers_data on a raw sheet.             *)

MaxRaw == 3         \* most rows of a raw sheet

\* Raw rows: two that pass every step (one of them with a service the table renames) and
\* one for each reason a row is dropped.
RawRows ==
    {RawRow(Cell("Clinica Central"), Cell(Data.Urgencias_Medico_General_raw), 1,
            Cell(62680), Cell(-755700), Data.ANTIOQUIA_raw, Data.MEDELLIN_raw),
     RawRow(Cell("Clinica Central"), Cell(Data.Consulta_No_Programada_raw), 2,
            Cell(69700), Cell(-755700), Data.bogota_dc_raw, Data.bogota_dc_raw),
     RawRow(Cell("Clinica Central"), Cell(Data.Laboratorio_Clinico_raw), 1,
            Cell(62680), Cell(-755700), Data.ANTIOQUIA_raw, Data.MEDELLIN_raw),
     RawRow(Cell("Clinica Central"), NaN, 1,
            Cell(62680), Cell(-755700), Data.ANTIOQUIA_raw, Data.MEDELLIN_raw),
     RawRow(NaN, Cell(Data.Urgencias_Medico_General_raw), 1,
            Cell(62680), Cell(-755700), Data.ANTIOQUIA_raw, Data.MEDELLIN_raw),
     RawRow(Cell("ORDEN DE COMPRA PUNTUAL"), Cell(Data.Urgencias_Medico_General_raw), 1,
            Cell(62680), Cell(-755700), Data.ANTIOQUIA_raw, Data.MEDELLIN_raw),
     RawRow(Cell("Clinica Central"), Cell(Data.Urgencias_Medico_General_raw), 9,
            Cell(62680), Cell(-755700), Data.ANTIOQUIA_raw, Data.MEDELLIN_raw),
     RawRow(Cell("Clinica Central"), Cell(Data.Urgencias_Medico_General_raw), 1,
            NaN, Cell(-755700), Data.ANTIOQUIA_raw, Data.MEDELLIN_raw),
     RawRow(Cell("Clinica Central"), Cell(Data.Urgencias_Medico_General_raw), 1,
            Cell(62680), Cell(0), Data.ANTIOQUIA_raw, Data.MEDELLIN_raw)}

InitClean ==
    /\ pc = "clean"
    /\ LoaderIdle
    /\ raw_df \in SeqsUpTo(RawRows, MaxRaw)
    /\ servicios_prestadores \in
           {None, Cell(<<Lit.urgencias_medico_general>>),
            Cell(<<Lit.consulta_no_programada, Lit.urgencias_medico_general>>)}
    /\ params \in [prestadores_to_drop :
                        IF servicios_prestadores = None THEN {None, Cell(<<>>)} ELSE {None}]
    /\ df_clean = Idle
    /\ match_in = Idle /\ sim = Idle /\ match_out = Idle /\ df_sintomas = Idle
    /\ df_prestadores = Idle /\ df_corr = Idle /\ request = Idle
    /\ recomendacion = Idle /\ providers_filtered = Idle

CleanProvidersData ==
    /\ pc = "clean"
    /\ df_clean' = clean_providers_data(raw_df, servicios_prestadores,
                                        params.prestadores_to_drop)
    /\ pc' = "cleaned"
    /\ UNCHANGED loader_vars
    /\ UNCHANGED <<match_in, sim, match_out, df_sintomas, df_prestadores, params, df_corr,
                   request, recomendacion, providers_filtered, raw_df,
                   servicios_prestadores>>

NextClean == CleanProvidersData

SpecClean == InitClean /\ [][NextClean]_vars

\* C10 as stated: every row clean_providers_data returns has a service id of the
\* configured allow-list.
C10_ServiceInAllowList ==
    pc = "cleaned" =>
        LET configured == Range(OrDefault(servicios_prestadores, DefaultServicios))
        IN  \A i \in 1..Len(df_clean) : df_clean[i].servicio_prestador \in configured

\* C10, amended: every row clean_providers_data returns has a service id that the
\* renaming table of step 6.5 gives for an id of the configured allow-list (an id the
\* table does not list stays as it is).
C10_ServiceOfAllowList ==
    pc = "cleaned" =>
        LET configured == Range(OrDefault(servicios_prestadores, DefaultServicios))
        IN  \A i \in 1..Len(df_clean) :
                \E s \in configured : df_clean[i].servicio_prestador = Renamed(s)

\* Reached: a call that drops a row for its service and returns one row with an id of the
\* allow-list and one with a renamed id that the allow-list does not hold.
C10_Witness ==
    LET configured == Range(OrDefault(servicios_prestadores, DefaultServicios))
    IN  /\ pc = "cleaned"
        /\ Len(df_clean) < Len(raw_df)
        /\ \E i, j \in 1..Len(df_clean) :
              /\ df_clean[i].servicio_prestador \in configured
              /\ df_clean[j].servicio_prestador \notin configured
        /\ \E k \in 1..Len(raw_df) :
              /\ ~IsNa(raw_df[k].concepto_factura)
              /\ Val(text_cleaning(raw_df[k].concepto_factura)) \notin configured

\* C11: every row clean_providers_data returns has a provider name that is not null and
\* not in the denylist, a routing priority other than 9, and a latitude and a longitude
\* that are both not null and not 0.
C11_ValidRows ==
    pc = "cleaned" =>
        LET to_drop == Range(OrDefault(params.prestadores_to_drop, DefaultToDrop))
        IN  \A i \in 1..Len(df_clean) :
                /\ ~IsNa(df_clean[i].prestador)
                /\ Val(df_clean[i].prestador) \notin to_drop
                /\ df_clean[i].prioridad_recomendacion # 9
                /\ ~IsNa(df_clean[i].lat) /\ ~IsNa(df_clean[i].lng)
                /\ Val(df_clean[i].lat) # 0 /\ Val(df_clean[i].lng) # 0

\* Reached: a sheet with a row of routing priority 9, a row of longitude 0 and a row that
\* is returned, the first two dropped.
C11_Witness ==
    /\ pc = "cleaned"
    /\ Len(df_clean) = 1
    /\ \E i, j \in 1..Len(raw_df) :
          /\ raw_df[i].direccionamiento = 9
          /\ raw_df[j].valor_longitud = Cell(0)
          /\ ~IsNa(raw_df[j].prestador) /\ ~IsNa(raw_df[j].valor_latitud)

\* C12: clean_providers_data never adds or reorders records: the rows it returns are, in
\* order, rows of the input taken in increasing position (a subsequence), so there are no
\* more of them than input rows.
C12_Subsequence ==
    pc = "cleaned" =>
        /\ Len(df_clean) <= Len(raw_df)
        /\ \E f \in [1..Len(df_clean) -> 1..Len(raw_df)] :
              /\ \A i, j \in 1..Len(df_clean) : i < j => f[i] < f[j]
              /\ \A i \in 1..Len(df_clean) :
                    /\ df_clean[i].prestador = raw_df[f[i]].prestador
                    /\ df_clean[i].sucursal = raw_df[f[i]].sucursal_prestador
                    /\ df_clean[i].direccion = raw_df[f[i]].direccion_domicilio
                    /\ df_clean[i].lat = raw_df[f[i]].valor_latitud
                    /\ df_clean[i].lng = raw_df[f[i]].valor_longitud
                    /\ df_clean[i].prioridad_recomendacion = raw_df[f[i]].direccionamiento
                    /\ PyLower(df_clean[i].municipio) = PyLower(raw_df[f[i]].municipio)

\* Reached: two different rows returned in the order of the sheet, and a row between
\* them dropped.
C12_Witness ==
    /\ pc = "cleaned"
    /\ Len(raw_df) = 3
    /\ Len(df_clean) = 2
    /\ df_clean[1].lat = raw_df[1].valor_latitud
    /\ df_clean[2].lat = raw_df[3].valor_latitud
    /\ df_clean[1].lat # df_clean[2].lat

-----------------------------------------------------------------------------
(* utils/input_data/providers_utils.py: merge_provider_locations           *)

\* The default key_columns of a row.  sucursal is a cell that can be NaN.
KeyColumns(r) == <<r.sucursal, r.departamento, r.municipio>>

\* Mutant of UrgLocations: drop_duplicates(subset=key_columns, keep="last").
UrgLocationsKeepLast(df_urg) ==
    RowsAt(df_urg, {i \in 1..Len(df_urg) :
                        \A j \in (i + 1)..Len(df_urg) :
                            KeyColumns(df_urg[j]) # KeyColumns(df_urg[i])})

\* urg_locations: the first row of df_urg for each key; drop_duplicates takes two NaN
\* for equal.  Of its rows only the key and the location columns are read.
UrgLocations(df_urg) ==
    DropDuplicates(df_urg, [i \in 1..Len(df_urg) |-> KeyColumns(df_urg[i])])

\* Mutant of SameKey: the mask compares the sucursal alone.
SameSucursal(r, urg_row) == ~IsNa(r.sucursal) /\ r.sucursal = urg_row.sucursal

\* The mask for one row: df_merged[key_col] == urg_row[key_col] for every key column.
\* A comparison with NaN is False.
SameKey(r, urg_row) ==
    /\ ~IsNa(r.sucursal) /\ r.sucursal = urg_row.sucursal
    /\ r.departamento = urg_row.departamento
    /\ r.municipio = urg_row.municipio

\* df_merged.loc[mask, col] = urg_row[col] for the default location_columns.
UpdateMatching(df, urg_row) ==
    [i \in 1..Len(df) |->
        IF SameKey(df[i], urg_row)
        THEN [df[i] EXCEPT !.direccion = urg_row.direccion, !.lat = urg_row.lat,
                           !.lng = urg_row.lng]
        ELSE df[i]]

\* The loop over urg_locations.iterrows(), from row k on.
RECURSIVE MergeLoop(_, _, _)
MergeLoop(df, urg_locations, k) ==
    IF k > Len(urg_locations) THEN df
    ELSE MergeLoop(UpdateMatching(df, urg_locations[k]), urg_locations, k + 1)

\* df_merged, which starts as a copy of df_main.
merge_provider_locations(df_main, df_urg) == MergeLoop(df_main, UrgLocations(df_urg), 1)

-----------------------------------------------------------------------------
(* SpecMerge: one call of merge_provider_locations on two directories.     *)

MaxMain == 2        \* most rows of df_main
MaxUrg == 2         \* most rows of df_urg

\* A row of a cleaned directory whose sucursal may be missing.
Branch(sucursal, municipio, direccion, point, servicio) ==
    [prestador |-> "IPS", sucursal |-> sucursal, departamento |-> Data.Antioquia,
     municipio |-> municipio, direccion |-> direccion, lat |-> point.lat,
     lng |-> point.lng, servicio_prestador |-> servicio, prioridad_recomendacion |-> 1]

Sucursales == {NaN, Cell("Sede Norte")}

\* Rows of the main directory, all at one address, and rows of the urgent care directory
\* at two others.
MainRows ==
    {Branch(s, m, "Calle 1", PointUser, Lit.consulta_medicina_general) :
        s \in Sucursales, m \in {Data.Medellin, Data.La_Ceja}}

UrgRows ==
    {Branch(s, m, l.direccion, l.point, Lit.urgencias_medico_general) :
        s \in Sucursales, m \in {Data.Medellin, Data.La_Ceja},
        l \in {[direccion |-> "Carrera 2", point |-> PointNear],
               [direccion |-> "Carrera 3", point |-> PointFar]}}

InitMerge ==
    /\ pc = "merge"
    /\ merge_in \in [df_main : SeqsUpTo(MainRows, MaxMain),
                     df_urg : SeqsUpTo(UrgRows, MaxUrg)]
    /\ df_merged = Idle
    /\ QueryIdle
    /\ raw_text = Idle /\ cleaned = Idle /\ columns = Idle /\ combinations = Idle
    /\ source = Idle /\ cache = Idle /\ session = Idle
    /\ rules = Idle /\ session_state = Idle /\ geo = Idle

\* The call works on df_main.copy() and only reads df_urg.
MergeProviderLocations ==
    /\ pc = "merge"
    /\ df_merged' = merge_provider_locations(merge_in.df_main, merge_in.df_urg)
    /\ merge_in' = merge_in
    /\ pc' = "merged"
    /\ UNCHANGED <<query_vars, rules, session_state, geo>>
    /\ UNCHANGED <<raw_text, cleaned, columns, combinations, source, cache, session>>

NextMerge == MergeProviderLocations

SpecMerge == InitMerge /\ [][NextMerge]_vars

\* C13: merge_provider_locations leaves everything but matched location fields as it
\* was: the result has the rows of df_main, as many and in the same order; a row of
\* df_main whose key is not the key of any row of df_urg is returned as it is; the columns
\* other than direccion, lat and lng of every row are as they were; and the call changes
\* neither df_main nor df_urg.
C13_OnlyLocationsChange ==
    /\ [](pc = "merged" =>
            /\ Len(df_merged) = Len(merge_in.df_main)
            /\ \A i \in 1..Len(df_merged) :
                  LET before == merge_in.df_main[i]
                  IN  /\ [df_merged[i] EXCEPT !.direccion = before.direccion,
                                              !.lat = before.lat, !.lng = before.lng]
                            = before
                      /\ (\A j \in 1..Len(merge_in.df_urg) :
                              KeyColumns(merge_in.df_urg[j]) # KeyColumns(before))
                            => df_merged[i] = before)
    /\ [][merge_in' = merge_in]_vars

\* Reached: a merge that rewrites the location of one row of df_main and returns another,
\* of the same sucursal in another municipality, as it was.
C13_Witness ==
    /\ pc = "merged"
    /\ \E i, k \in 1..Len(df_merged) :
          /\ df_merged[i] # merge_in.df_main[i]
          /\ df_merged[k] = merge_in.df_main[k]
          /\ df_merged[k].sucursal = df_merged[i].sucursal
          /\ df_merged[k].municipio # df_merged[i].municipio

\* C14: after merge_provider_locations every row of df_main whose key is the key of a row
\* of df_urg has the direccion, lat and lng of the first row of df_urg with that key; rows
\* of df_urg after the first of a key change nothing, and every row of df_main with the
\* key is updated.
C14_FirstOverrideWins ==
    pc = "merged" =>
        \A i \in 1..Len(df_merged) :
            LET key == KeyColumns(merge_in.df_main[i])
                J == {j \in 1..Len(merge_in.df_urg) : KeyColumns(merge_in.df_urg[j]) = key}
            IN  J # {} =>
                    LET first == merge_in.df_urg[CHOOSE j \in J : \A k \in J : j <= k]
                    IN  /\ df_merged[i].direccion = first.direccion
                        /\ df_merged[i].lat = first.lat
                        /\ df_merged[i].lng = first.lng

\* C14, amended: after merge_provider_locations every row of df_main whose sucursal is not
\* null and whose key is the key of a row of df_urg has the direccion, lat and lng of the
\* first row of df_urg with that key; rows of df_urg after the first of a key change
\* nothing, and every such row of df_main with the key is updated.  A row of df_main
\* without sucursal is returned as it is.
C14_FirstOverrideWinsKnownKey ==
    pc = "merged" =>
        \A i \in 1..Len(df_merged) :
            LET key == KeyColumns(merge_in.df_main[i])
                J == {j \in 1..Len(merge_in.df_urg) : KeyColumns(merge_in.df_urg[j]) = key}
            IN  /\ (J # {} /\ ~IsNa(key[1])) =>
                        LET first == merge_in.df_urg[CHOOSE j \in J : \A k \in J : j <= k]
                        IN  /\ df_merged[i].direccion = first.direccion
                            /\ df_merged[i].lat = first.lat
                            /\ df_merged[i].lng = first.lng
                /\ IsNa(key[1]) => df_merged[i] = merge_in.df_main[i]

\* Reached: two rows of df_main with one key, both with the location of the first of two
\* rows of df_urg with that key, which differ in their location.
C14_Witness ==
    /\ pc = "merged"
    /\ Len(df_merged) = 2 /\ Len(merge_in.df_urg) = 2
    /\ merge_in.df_main[1] = merge_in.df_main[2]
    /\ ~IsNa(df_merged[1].sucursal)
    /\ KeyColumns(merge_in.df_urg[1]) = KeyColumns(merge_in.df_urg[2])
    /\ merge_in.df_urg[1].lat # merge_in.df_urg[2].lat
    /\ df_merged[1].lat = merge_in.df_urg[1].lat
    /\ df_merged[2].lat = merge_in.df_urg[1].lat

-----------------------------------------------------------------------------
(* SpecText: text_cleaning applied to a str, then to its own result.       *)

MaxText == 4        \* longest str handed to text_cleaning

\* A lower-case letter, accented letters of both cases, a digit, two kinds of whitespace,
\* the underscore, punctuation, and a non-ASCII character without decomposition.
TextChars == {"a", "é", "Ñ", "7", " ", "\t", "_", "!", "ø"}

InitText ==
    /\ pc = "text"
    /\ raw_text \in SeqsUpTo(TextChars, MaxText)
    /\ cleaned = <<>>
    /\ QueryIdle
    /\ merge_in = Idle /\ df_merged = Idle /\ columns = Idle /\ combinations = Idle
    /\ source = Idle /\ cache = Idle /\ session = Idle
    /\ rules = Idle /\ session_state = Idle /\ geo = Idle

\* text_cleaning(raw_text), then text_cleaning of what that call returned.
TextCleaning ==
    /\ pc = "text"
    /\ cleaned' = Append(cleaned, Val(text_cleaning(Cell(IF cleaned = <<>> THEN raw_text
                                                         ELSE cleaned[Len(cleaned)]))))
    /\ pc' = IF cleaned = <<>> THEN "text" ELSE "cleaned_twice"
    /\ UNCHANGED <<query_vars, rules, session_state, geo>>
    /\ UNCHANGED <<merge_in, df_merged, raw_text, columns, combinations, source, cache,
                   session>>

NextText == TextCleaning

SpecText == InitText /\ [][NextText]_vars

\* C15: text_cleaning is idempotent: text_cleaning(text_cleaning(x)) = text_cleaning(x)
\* for every str x.
C15_Idempotent == Len(cleaned) = 2 => cleaned[2] = cleaned[1]

\* Reached: a str with an accented capital, punctuation and whitespace cleaned twice, the
\* first result two letters joined by an underscore.
C15_Witness ==
    /\ Len(cleaned) = 2
    /\ cleaned[1] = <<"n", "_", "a">>
    /\ raw_text[1] = "Ñ"
    /\ Len(raw_text) = 4

\* C16: text_cleaning(s) consists of the characters a-z, 0-9 and underscore only: no
\* upper-case letter, whitespace, accent or punctuation is left.
C16_OnlyKeyCharacters ==
    Len(cleaned) >= 1 =>
        \A i \in 1..Len(cleaned[1]) :
            cleaned[1][i] \in
                {"a", "b", "c", "d", "e", "f", "g", "h", "i", "j", "k", "l", "m", "n", "o",
                 "p", "q", "r", "s", "t", "u", "v", "w", "x", "y", "z", "0", "1", "2", "3",
                 "4", "5", "6", "7", "8", "9", "_"}

\* Reached: a str of an accented capital, a tab, punctuation and a non-ASCII character,
\* cleaned to the base letter alone.
C16_Witness ==
    /\ Len(cleaned) >= 1
    /\ raw_text = <<"Ñ", "\t", "!", "ø">>
    /\ cleaned[1] = <<"n">>

-----------------------------------------------------------------------------
(* utils/input_data/triage_symptoms.py: build_triage_combinations          *)

\* df.columns.str.normalize("NFKD").str.encode("ascii", errors="ignore").str.decode("utf-8")
\* .str.lower().str.strip() on one column name.
ColumnName(c) ==
    PyStrip(PyLower(SelectSeq([i \in 1..Len(c) |-> StripMark(c[i])], IsAscii)))

\* The substrings that locate the columns, in the order of columnas_utiles: col_categoria,
\* col_sintoma, col_modificador, col_triage, col_modalidad, col_especialidad.
RoleMarkers ==
    <<<<"c", "a", "t", "e", "g">>,
      <<"s", "i", "n", "t", "o", "m", "a">>,
      <<"m", "o", "d", "i", "f">>,
      <<"t", "r", "i", "a", "g", "e">>,
      <<"m", "o", "d", "a", "l">>,
      <<"e", "s", "p", "e", "c", "i", "a", "l">>>>

\* next((c for c in posibles_cols if marker in c), None)
FirstColumn(posibles_cols, marker) ==
    LET I == {i \in 1..Len(posibles_cols) : StrContains(posibles_cols[i], marker)}
    IN  IF I = {} THEN None ELSE Cell(posibles_cols[CHOOSE i \in I : \A j \in I : i <= j])

\* The message of the ValueError.
ColumnsMessage ==
    <<"N", "o", " ", "s", "e", " ", "e", "n", "c", "o", "n", "t", "r", "a", "r", "o",
      "n", " ", "t", "o", "d", "a", "s", " ", "l", "a", "s", " ", "c", "o", "l", "u",
      "m", "n", "a", "s", " ", "n", "e", "c", "e", "s", "a", "r", "i", "a", "s", " ",
      "e", "n", " ", "e", "l", " ", "E", "x", "c", "e", "l", ".">>

\* df[columnas_utiles]: a None among the labels raises KeyError.
SelectColumns(columnas_utiles) ==
    IF \E i \in 1..Len(columnas_utiles) : columnas_utiles[i] = None
    THEN [raises |-> "KeyError"]
    ELSE [raises |-> "none", columnas_utiles |-> columnas_utiles]

\* Lines 509-540: the outcome of the column detection for the column names of the sheet.
build_triage_combinations(sheet_columns) ==
    LET posibles_cols == [i \in 1..Len(sheet_columns) |-> ColumnName(sheet_columns[i])]
        found == [k \in 1..6 |-> FirstColumn(posibles_cols, RoleMarkers[k])]
    IN  IF \E k \in 1..5 : found[k] = None
        THEN [raises |-> "ValueError", message |-> ColumnsMessage]
        ELSE SelectColumns(found)

-----------------------------------------------------------------------------
(* SpecCombos: build_triage_combinations on sheets with some of the columns. *)

\* Column names of a sheet, each with the marker of one role, and one without any.
SheetColumns ==
    <<<<"C", "a", "t", "e", "g", "o", "r", "í", "a">>,
      <<"S", "í", "n", "t", "o", "m", "a", " ">>,
      <<"M", "o", "d", "i", "f", "i", "c", "a", "d", "o", "r">>,
      <<"N", "i", "v", "e", "l", " ", "T", "r", "i", "a", "g", "e">>,
      <<"M", "o", "d", "a", "l", "i", "d", "a", "d">>,
      <<"E", "s", "p", "e", "c", "i", "a", "l", "i", "d", "a", "d">>,
      <<"O", "b", "s", "e", "r", "v", "a", "c", "i", "o", "n", "e", "s">>>>

InitCombos ==
    /\ pc = "combos"
    /\ columns \in {RowsAt(SheetColumns, I) : I \in SUBSET (1..Len(SheetColumns))}
    /\ combinations = Idle
    /\ QueryIdle
    /\ merge_in = Idle /\ df_merged = Idle /\ raw_text = Idle /\ cleaned = Idle
    /\ source = Idle /\ cache = Idle /\ session = Idle
    /\ rules = Idle /\ session_state = Idle /\ geo = Idle

BuildTriageCombinations ==
    /\ pc = "combos"
    /\ combinations' = build_triage_combinations(columns)
    /\ pc' = "combined"
    /\ UNCHANGED <<query_vars, rules, session_state, geo>>
    /\ UNCHANGED <<merge_in, df_merged, raw_text, cleaned, columns, source, cache, session>>

NextCombos == BuildTriageCombinations

SpecCombos == InitCombos /\ [][NextCombos]_vars

\* C17: build_triage_combinations fails with a configuration error that names the missing
\* role whenever the column of one of the roles category, symptom, modifier, triage,
\* modality cannot be located among the columns of the sheet, and it does not reject a
\* sheet that has those five columns and no specialty column.
C17_ConfigurationError ==
    pc = "combined" =>
        LET names == [k \in 1..Len(columns) |-> ColumnName(columns[k])]
            located(k) == \E i \in 1..Len(names) : StrContains(names[i], RoleMarkers[k])
        IN  /\ \A k \in 1..5 :
                  ~located(k) =>
                      /\ combinations.raises = "ValueError"
                      /\ StrContains(combinations.message, RoleMarkers[k])
            /\ (\A k \in 1..5 : located(k)) => combinations.raises = "none"

-----------------------------------------------------------------------------
(* SpecCache: sessions that query through the two st.cache_data loaders of *)
(* utils/matching_utils/recommendation_engine.py while entries expire and  *)
(* the sheets on disk change.  A cached function runs to its return; then  *)
(* st.cache_data stores the value it returned under the arguments of the   *)
(* call, and a later call with these arguments gets a copy of that value   *)
(* until the entry expires.  Calls of different sessions may overlap.      *)

Sessions == {"s1", "s2"}

\* Two versions of the main provider sheet, the urgent care sheet, and the triage
\* combinations.
Sheets ==
    [main |->
        <<<<RawRow(Cell("Clinica Central"), Cell(Data.Urgencias_Medico_General_raw), 1,
                   Cell(62500), Cell(-755700), Data.ANTIOQUIA_raw, Data.MEDELLIN_raw),
            RawRow(Cell("Clinica Central"), Cell(Data.Consulta_No_Programada_raw), 2,
                   Cell(69700), Cell(-755700), Data.ANTIOQUIA_raw, Data.MEDELLIN_raw)>>,
          <<RawRow(Cell("Clinica Central"), Cell(Data.Urgencias_Medico_General_raw), 2,
                   Cell(62500), Cell(-755700), Data.ANTIOQUIA_raw, Data.MEDELLIN_raw)>>>>,
     urg |->
        <<RawRow(Cell("Clinica Central"), Cell(Data.Urgencias_Medico_General_raw), 1,
                 Cell(62680), Cell(-755700), Data.ANTIOQUIA_raw, Data.MEDELLIN_raw)>>,
     triage |->
        <<Combination(Lit.salud_mental, Data.sintoma_a, Lit.T1, Data.presencial,
                      Cell(Data.psiquiatria)),
          Combination(Data.digestivo, Data.sintoma_b, Lit.T5, Data.virtual, NaN)>>]

\* What load_and_prepare_provider_data returns for each version of the main sheet.
LoadedDirectories ==
    {merge_provider_locations(clean_providers_data(Sheets.main[m], None, None),
                              clean_providers_data(Sheets.urg, None, None)) :
     m \in 1..2}

\* The locals of a session that has not called yet.
NoCall ==
    [pc |-> "query", caller |-> "table", df_triage |-> Idle, df_prestadores |-> Idle,
     df_prestadores_urg |-> Idle, prestadores_clean |-> Idle,
     prestadores_urg_clean |-> Idle, prestadores_final |-> Idle,
     correspondencias |-> Idle, df_corr |-> Idle]

\* Mutant of ReturnedDirectory: return prestadores_clean.
ReturnedClean(locals) == locals.prestadores_clean

\* return prestadores_final (line 59).
ReturnedDirectory(locals) == locals.prestadores_final

InitCache ==
    /\ pc = "serve"
    /\ source = 1
    /\ cache = [directory |-> None, table |-> None]
    /\ session = [s \in Sessions |-> NoCall]
    /\ sim = [p \in UNION {AskedPairs(Sheets.triage, d) : d \in LoadedDirectories}
                   |-> 8000]
    /\ match_in = Idle /\ match_out = Idle /\ df_sintomas = Idle /\ df_prestadores = Idle
    /\ params = Idle /\ df_corr = Idle /\ request = Idle /\ recomendacion = Idle
    /\ providers_filtered = Idle /\ raw_df = Idle /\ servicios_prestadores = Idle
    /\ df_clean = Idle
    /\ merge_in = Idle /\ df_merged = Idle /\ raw_text = Idle /\ cleaned = Idle
    /\ columns = Idle /\ combinations = Idle
    /\ rules = Idle /\ session_state = Idle /\ geo = Idle

\* A call of load_and_prepare_provider_data (lines 103 and 221): the cached value, or the
\* start of a run of the function.
CallLoader(s) ==
    /\ session[s].pc = "directory"
    /\ IF cache.directory # None
       THEN session' = [session EXCEPT ![s].prestadores_final = Val(cache.directory),
                                       ![s].pc = IF session[s].caller = "table"
                                                 THEN "build" ELSE "done"]
       ELSE session' = [session EXCEPT ![s].pc = "read_main"]
    /\ UNCHANGED <<cache, source>>
    /\ UNCHANGED <<pc, query_vars, rules, session_state, geo>>
    /\ UNCHANGED <<merge_in, df_merged, raw_text, cleaned, columns, combinations>>

\* The body of load_and_prepare_provider_data, a statement at a time, and the return to
\* st.cache_data, which stores the value.
LoadAndPrepareProviderData(s) ==
    LET my == session[s]
    IN  /\ \/ /\ my.pc = "read_main"
              /\ session' = [session EXCEPT ![s].df_prestadores = Sheets.main[source],
                                            ![s].pc = "read_urg"]
              /\ UNCHANGED <<cache, source>>
           \/ /\ my.pc = "read_urg"
              /\ session' = [session EXCEPT ![s].df_prestadores_urg = Sheets.urg,
                                            ![s].pc = "clean"]
              /\ UNCHANGED <<cache, source>>
           \/ /\ my.pc = "clean"
              /\ session' = [session EXCEPT
                     ![s].prestadores_clean =
                         clean_providers_data(my.df_prestadores, None, None),
                     ![s].prestadores_urg_clean =
                         clean_providers_data(my.df_prestadores_urg, None, None),
                     ![s].pc = "merge"]
              /\ UNCHANGED <<cache, source>>
           \/ /\ my.pc = "merge"
              /\ session' = [session EXCEPT
                     ![s].prestadores_final =
                         merge_provider_locations(my.prestadores_clean,
                                                  my.prestadores_urg_clean),
                     ![s].pc = "return_directory"]
              /\ UNCHANGED <<cache, source>>
           \/ /\ my.pc = "return_directory"
              /\ cache' = [cache EXCEPT !.directory = Cell(ReturnedDirectory(my))]
              /\ session' = [session EXCEPT ![s].prestadores_final = ReturnedDirectory(my),
                                            ![s].df_prestadores = Idle,
                                            ![s].df_prestadores_urg = Idle,
                                            ![s].prestadores_clean = Idle,
                                            ![s].prestadores_urg_clean = Idle,
                                            ![s].pc = IF my.caller = "table"
                                                      THEN "build" ELSE "done"]
              /\ UNCHANGED source
        /\ UNCHANGED <<pc, query_vars, rules, session_state, geo>>
        /\ UNCHANGED <<merge_in, df_merged, raw_text, cleaned, columns, combinations>>

\* A call of build_triage_correspondence_table with the default arguments: the cached
\* value, or a run of lines 99-117.  The loop of build_correspondence_table appends an
\* entry at a time.  The page then calls filter_providers_by_service_and_location, which
\* calls the loader (line 221).
BuildTriageCorrespondenceTable(s) ==
    LET my == session[s]
    IN  /\ \/ /\ my.pc = "query"
              /\ IF cache.table # None
                 THEN session' = [session EXCEPT ![s].df_corr = Val(cache.table),
                                                 ![s].caller = "filter",
                                                 ![s].pc = "directory"]
                 ELSE session' = [session EXCEPT ![s].df_triage = Sheets.triage,
                                                 ![s].pc = "directory"]
              /\ UNCHANGED <<cache, source>>
           \/ /\ my.pc = "build"
              /\ session' = [session EXCEPT
                     ![s].correspondencias =
                         build_correspondence_table(
                             SubSeq(my.df_triage, 1, Len(my.correspondencias) + 1),
                             my.prestadores_final, 7000, 3, "semantic"),
                     ![s].pc = IF Len(my.correspondencias) + 1 = Len(my.df_triage)
                               THEN "return_table" ELSE "build"]
              /\ UNCHANGED <<cache, source>>
           \/ /\ my.pc = "return_table"
              /\ cache' = [cache EXCEPT !.table = Cell(my.correspondencias)]
              /\ session' = [session EXCEPT ![s].df_corr = my.correspondencias,
                                            ![s].df_triage = Idle,
                                            ![s].correspondencias = Idle,
                                            ![s].caller = "filter",
                                            ![s].pc = "directory"]
              /\ UNCHANGED source
        /\ UNCHANGED <<pc, query_vars, rules, session_state, geo>>
        /\ UNCHANGED <<merge_in, df_merged, raw_text, cleaned, columns, combinations>>

\* The next run of the page in the session.
Rerun(s) ==
    /\ session[s].pc = "done"
    /\ session' = [session EXCEPT ![s] = NoCall]
    /\ UNCHANGED <<cache, source>>
    /\ UNCHANGED <<pc, query_vars, rules, session_state, geo>>
    /\ UNCHANGED <<merge_in, df_merged, raw_text, cleaned, columns, combinations>>

\* ttl=3600: an entry expires.
Expire ==
    /\ \E k \in {"directory", "table"} :
          /\ cache[k] # None
          /\ cache' = [cache EXCEPT ![k] = None]
    /\ UNCHANGED <<session, source>>
    /\ UNCHANGED <<pc, query_vars, rules, session_state, geo>>
    /\ UNCHANGED <<merge_in, df_merged, raw_text, cleaned, columns, combinations>>

\* The main provider sheet is replaced on disk by its other version.
SourceChange ==
    /\ source' = 3 - source
    /\ UNCHANGED <<session, cache>>
    /\ UNCHANGED <<pc, query_vars, rules, session_state, geo>>
    /\ UNCHANGED <<merge_in, df_merged, raw_text, cleaned, columns, combinations>>

NextCache ==
    \/ \E s \in Sessions :
           \/ CallLoader(s)
           \/ LoadAndPrepareProviderData(s)
           \/ BuildTriageCorrespondenceTable(s)
           \/ Rerun(s)
    \/ Expire
    \/ SourceChange

SpecCache == InitCache /\ [][NextCache]_vars

\* C20: whatever the interleaving of queries with rebuilds of the cached tables (first
\* access, expiry), a query never gets a partially built provider directory or
\* correspondence table: the directory a call of the loader hands to a session, and the
\* one in the cache, is the cleaned and merged directory of sheets that were on disk,
\* and the correspondence table a session gets, and the one in the cache, has an entry
\* with its services for every triage combination, in order.
C20_CompleteTables ==
    LET Complete(table) ==
            /\ Len(table) = Len(Sheets.triage)
            /\ \A i \in 1..Len(table) :
                  /\ table[i].categoria = Sheets.triage[i].categoria
                  /\ table[i].nivel_triage = Sheets.triage[i].nivel_triage
                  /\ table[i].servicios_sugeridos # <<>>
    IN  pc = "serve" =>
            /\ cache.directory # None => Val(cache.directory) \in LoadedDirectories
            /\ cache.table # None => Complete(Val(cache.table))
            /\ \A s \in Sessions :
                  /\ session[s].pc \in {"build", "return_table", "done"}
                        => session[s].prestadores_final \in LoadedDirectories
                  /\ session[s].caller = "filter" => Complete(session[s].df_corr)

\* Reached: a session gets the table and the directory from the cache while the other
\* session, rebuilding the table after its expiry, has one of the two entries.
C20_Witness ==
    /\ pc = "serve"
    /\ session["s1"].pc = "done"
    /\ Len(session["s1"].df_corr) = 2
    /\ session["s2"].pc = "build"
    /\ Len(session["s2"].correspondencias) = 1
    /\ cache.directory # None

\* C29: whatever the fills and the expiries of the two caches, a query filters the
\* directory from which the correspondence table it consults was built: the table of a
\* session that has its directory is the table of that directory.
C29_TableOfFilteredDirectory ==
    pc = "serve" =>
        \A s \in Sessions :
            session[s].pc = "done" =>
                session[s].df_corr
                    = build_correspondence_table(Sheets.triage, session[s].prestadores_final,
                                                 7000, 3, "semantic")

-----------------------------------------------------------------------------
(* utils/ui_maps.py, utils/ui_geocode.py: get_coordinates_co and the map   *)
(* that calls it.                                                          *)

\* (4.5709, -74.2973), the centre of Colombia, in 1/10000 degree.
ColombiaCenter == [lat |-> 45709, lng |-> -742973]

\* The session as app.py lines 74-82 leave it, for each city the identification form may
\* have stored (None: no "ciudad" key), and the first render of the map.
InitGeo ==
    /\ pc = "map"
    /\ \E ciudad \in {None, Cell(Data.Medellin_typed), Cell(Data.Cali),
                      Cell(Data.la_ceja_typed)} :
          session_state = [ciudad |-> ciudad, city_lat |-> None, city_lon |-> None,
                           coordinates_queried_ciudad |-> None]
    /\ geo = Idle
    /\ QueryIdle
    /\ merge_in = Idle /\ df_merged = Idle /\ raw_text = Idle /\ cleaned = Idle
    /\ columns = Idle /\ combinations = Idle /\ source = Idle /\ cache = Idle
    /\ session = Idle /\ rules = Idle

\* get_coordinates_co, lines 29-47 of ui_maps.py (28-46 of ui_geocode.py), an iteration
\* of the loop at a time.  Each geolocator.geocode call finds a location, finds none, or
\* raises one of the exceptions of geopy.exc for a timeout, a rate limit and an
\* unavailable service; the except clause names the first two.
GetCoordinatesCo ==
    /\ pc = "geocode"
    /\ IF geo.attempt = 3
       THEN /\ geo' = [geo EXCEPT !.coords = Cell(ColombiaCenter)]
            /\ pc' = "returned"
       ELSE \E first, second \in {"location", "none", "GeocoderTimedOut",
                                  "GeocoderRateLimited", "GeocoderUnavailable"},
               location \in {PointUser, PointFar} :
               LET outcome == IF first = "none" THEN second ELSE first
               IN  /\ first # "none" => second = "none"
                   /\ CASE outcome = "location" ->
                               /\ geo' = [geo EXCEPT !.attempt = @ + 1,
                                                     !.coords = Cell(location)]
                               /\ pc' = "returned"
                        [] outcome = "none" ->
                               /\ geo' = [geo EXCEPT !.attempt = @ + 1]
                               /\ pc' = "returned"
                        [] outcome \in {"GeocoderTimedOut", "GeocoderRateLimited"} ->
                               /\ geo' = [geo EXCEPT !.attempt = @ + 1,
                                                     !.caught = Append(@, outcome)]
                               /\ pc' = "geocode"
                        [] OTHER ->
                               /\ geo' = [geo EXCEPT !.attempt = @ + 1,
                                                     !.raised = Cell(outcome)]
                               /\ pc' = "raised"
    /\ UNCHANGED session_state
    /\ UNCHANGED <<query_vars, merge_in, df_merged, raw_text, cleaned, columns,
                   combinations, source, cache, session, rules>>

\* map_triage_locate, lines 77-96: up to the call of get_coordinates_co, from its return
\* on, and the next run of the script, after the user may have stored another city.
MapTriageLocate ==
    /\ \/ /\ pc = "map"
          /\ LET centred == IF session_state.city_lat = None \/ session_state.city_lon = None
                            THEN [session_state EXCEPT
                                      !.city_lat = Cell(ColombiaCenter.lat),
                                      !.city_lon = Cell(ColombiaCenter.lng)]
                            ELSE session_state
             IN  /\ session_state' = centred
                 /\ IF session_state.coordinates_queried_ciudad \in {None, Cell(FALSE)}
                    THEN /\ geo' = [city_name |-> IF session_state.ciudad = None
                                                  THEN Data.Colombia
                                                  ELSE Val(session_state.ciudad),
                                    attempt |-> 0, caught |-> <<>>, coords |-> None,
                                    raised |-> None]
                         /\ pc' = "geocode"
                    ELSE /\ geo' = geo
                         /\ pc' = "rendered"
       \/ /\ pc = "returned"
          /\ LET coords == IF geo.coords # None THEN Val(geo.coords) ELSE ColombiaCenter
             IN  session_state' = [session_state EXCEPT
                                       !.city_lat = Cell(coords.lat),
                                       !.city_lon = Cell(coords.lng),
                                       !.coordinates_queried_ciudad = Cell(TRUE)]
          /\ geo' = geo
          /\ pc' = "rendered"
       \/ /\ pc = "rendered"
          /\ \E ciudad \in {session_state.ciudad, Cell(Data.Cali)} :
                session_state' = [session_state EXCEPT !.ciudad = ciudad]
          /\ geo' = geo
          /\ pc' = "map"
    /\ UNCHANGED <<query_vars, merge_in, df_merged, raw_text, cleaned, columns,
                   combinations, source, cache, session, rules>>

NextGeo ==
    \/ GetCoordinatesCo
    \/ MapTriageLocate

SpecGeo == InitGeo /\ [][NextGeo]_vars

\* C21: whatever failure the geocoder reports (timeout, rate limit, unavailable service)
\* and on whichever attempt, get_coordinates_co makes at most three attempts and raises
\* nothing, and when every attempt has failed the map goes on centred on the sentinel
\* (4.5709, -74.2973).
C21_GeocodingFailureTolerated ==
    /\ pc # "raised"
    /\ pc \in {"geocode", "returned", "rendered"} /\ geo # Idle => geo.attempt <= 3
    /\ pc = "rendered" /\ geo # Idle /\ Len(geo.caught) = 3 =>
          /\ session_state.city_lat = Cell(ColombiaCenter.lat)
          /\ session_state.city_lon = Cell(ColombiaCenter.lng)

-----------------------------------------------------------------------------
(* utils/input_data/triage_symptoms.py: the rows of build_triage_combinations *)
(* and get_triage_decision, over one rules sheet.                           *)

MaxRules == 2   \* most rows of the rules sheet

\* Lines 544-554: what the loop makes of a cell of a column.  astype(str) turns NaN into
\* "nan"; NFKD with the ASCII encoding leaves the base letter of an accented one.
NormalizeColumn(cell) ==
    LET lowered == PyLower(PyStrip(PyStr(cell)))
        nfkd == [i \in 1..Len(lowered) |-> StripMark(lowered[i])]
        ascii == SelectSeq(nfkd, IsAscii)
        keep(c) == \/ IsLowerAZ(c) \/ IsSpace(c) \/ c = "_"
                   \/ c \in {"0", "1", "2", "3", "4", "5", "6", "7", "8", "9"}
    IN  SubSpaceRuns(SelectSeq(ascii, keep), <<"_">>)

\* Lines 542-576 on the six columns of the sheet: the normalised rows, dropna (no cell is
\* NaN after astype(str)), drop_duplicates, and then the triage level in upper case with
\* a bare digit replaced by T and the digit.
TriageCombinations(df) ==
    LET normalized == [i \in 1..Len(df) |->
                          [c \in DOMAIN df[i] |-> NormalizeColumn(df[i][c])]]
        unique == DropDuplicates(normalized, normalized)
        standard(nivel) == IF PyUpper(nivel) \in {<<"1">>, <<"2">>, <<"3">>, <<"4">>, <<"5">>}
                           THEN <<"T">> \o PyUpper(nivel) ELSE PyUpper(nivel)
    IN  [i \in 1..Len(unique) |->
            [unique[i] EXCEPT !.nivel_triage = standard(@),
                              !.especialidad = Cell(@)]]

\* get_triage_decision, lines 443-474: the decision of the first row of the sheet with
\* the three selected values, None when there is none.
get_triage_decision(df, categoria, sintoma, modificador) ==
    LET mask(r) == /\ r.categoria = Cell(categoria)
                   /\ r.sintoma = Cell(sintoma)
                   /\ r.modificador = Cell(modificador)
        matching_rows == SelectSeq(df, mask)
        row == matching_rows[1]
        stripped(cell, default) == IF IsNa(cell) THEN default ELSE PyStrip(Val(cell))
    IN  IF matching_rows = <<>> THEN None
        ELSE [modalidad |-> stripped(row.modalidad, <<>>),
              triage |-> stripped(row.nivel_triage, <<>>),
              especialidad |->
                  PyTitle(TextCleaningStr(stripped(row.especialidad,
                                                   Data.Medicina_General)))]

\* Rules sheets of up to MaxRules rows: a category of the special set, one with
\* punctuation between two words and one with punctuation at its end; a triage level
\* written T1, 1 or T4; a specialty or none.  The directory offers the two general
\* services, and the scorer puts every pair above the threshold.
InitRules ==
    /\ pc = "rules"
    /\ LET RuleRows ==
               [categoria : {Cell(Data.Salud_mental_typed), Cell(Data.Nariz_Oidos_raw),
                             Cell(Data.Piel_raw)},
                sintoma : {Cell(Data.Dolor_raw)},
                modificador : {Cell(Data.Ninguno_raw)},
                nivel_triage : {Cell(Lit.T1), Cell(<<"1">>), Cell(Lit.T4)},
                modalidad : {Cell(Data.Presencial_raw)},
                especialidad : {NaN, Cell(Data.Psiquiatria_raw)}]
       IN  rules \in SeqsUpTo(RuleRows, MaxRules)
    /\ df_prestadores =
           <<Provider(Lit.urgencias_medico_general, Data.Antioquia, Data.Medellin,
                      PointNear, 1),
             Provider(Lit.consulta_medicina_general, Data.Antioquia, Data.Medellin,
                      PointFar, 1)>>
    /\ sim = [p \in AskedPairs(TriageCombinations(rules), df_prestadores) |-> 8000]
    /\ combinations = Idle /\ df_corr = Idle /\ request = Idle /\ recomendacion = Idle
    /\ match_in = Idle /\ match_out = Idle /\ df_sintomas = Idle /\ params = Idle
    /\ providers_filtered = Idle /\ raw_df = Idle /\ servicios_prestadores = Idle
    /\ df_clean = Idle
    /\ merge_in = Idle /\ df_merged = Idle /\ raw_text = Idle /\ cleaned = Idle
    /\ columns = Idle /\ source = Idle /\ cache = Idle /\ session = Idle
    /\ session_state = Idle /\ geo = Idle

\* build_triage_correspondence_table of recommendation_engine.py, lines 99-117, as the
\* recommendation page calls it (threshold=0.7, top_k=2, method="semantic").
BuildFromRules ==
    /\ pc = "rules"
    /\ combinations' = TriageCombinations(rules)
    /\ df_corr' = build_correspondence_table(TriageCombinations(rules), df_prestadores,
                                             7000, 2, "semantic")
    /\ pc' = "built"
    /\ UNCHANGED <<match_in, sim, match_out, df_sintomas, df_prestadores, params, request,
                   recomendacion, providers_filtered, raw_df, servicios_prestadores,
                   df_clean>>
    /\ UNCHANGED <<merge_in, df_merged, raw_text, cleaned, columns, source, cache, session,
                   rules, session_state, geo>>

\* The live query: the user selects the category, symptom and modifier of a row of the
\* sheet, symptoms_form stores the decision of get_triage_decision (ui_blocks.py lines
\* 470-479), and the recommendation page (lines 69-92) cleans the category and asks
\* get_recommended_services.
LiveQuery ==
    /\ pc = "built"
    /\ \E i \in 1..Len(rules) :
          LET selected == rules[i]
              triage_decision == get_triage_decision(rules, Val(selected.categoria),
                                                     Val(selected.sintoma),
                                                     Val(selected.modificador))
              categoria == Val(text_cleaning(selected.categoria))
          IN  /\ request' = [row |-> i, categoria |-> categoria,
                             nivel_triage |-> triage_decision.triage,
                             especialidad |-> triage_decision.especialidad]
              /\ recomendacion' = get_recommended_services(
                                      categoria, triage_decision.triage,
                                      triage_decision.especialidad, df_corr)
    /\ pc' = "queried"
    /\ UNCHANGED <<match_in, sim, match_out, df_sintomas, df_prestadores, params, df_corr,
                   providers_filtered, raw_df, servicios_prestadores, df_clean>>
    /\ UNCHANGED <<merge_in, df_merged, raw_text, cleaned, columns, combinations, source,
                   cache, session, rules, session_state, geo>>

NextRules ==
    \/ BuildFromRules
    \/ LiveQuery

SpecRules == InitRules /\ [][NextRules]_vars

\* C22: the table build_triage_combinations returns has no two rows equal in all six
\* fields, also when the sheet writes one triage level both as a bare digit and as T and
\* the digit.
C22_NoDuplicateRows ==
    pc \in {"built", "queried"} =>
        \A i, j \in 1..Len(combinations) : i # j => combinations[i] # combinations[j]

\* C23: every textual field of every row build_triage_combinations produces is
\* text_cleaning of the raw cell: each row of the sheet has its row in the table, with the
\* category, symptom, modifier, modality and (where the sheet has one) specialty that
\* text_cleaning gives.
C23_InlineAgreesWithTextCleaning ==
    pc \in {"built", "queried"} =>
        \A i \in 1..Len(rules) :
            \E k \in 1..Len(combinations) :
                /\ \A c \in {"categoria", "sintoma", "modificador", "modalidad"} :
                       Cell(combinations[k][c]) = text_cleaning(rules[i][c])
                /\ ~IsNa(rules[i].especialidad) =>
                       combinations[k].especialidad = text_cleaning(rules[i].especialidad)

\* C24: the keys the live query derives from a row of the sheet (the first row with its
\* category, symptom and modifier) select the entry of the correspondence table built
\* from that row, and the answer is that entry's, never the fallback of
\* get_recommended_services for a query no row matches.
C24_LiveKeysSelectOwnEntry ==
    (/\ pc = "queried"
     /\ \A j \in 1..(request.row - 1) :
            <<rules[j].categoria, rules[j].sintoma, rules[j].modificador>>
                # <<rules[request.row].categoria, rules[request.row].sintoma,
                    rules[request.row].modificador>>) =>
        LET own == TriageCombinations(<<rules[request.row]>>)[1]
            especialidad_norm == PyStrip(PyLower(request.especialidad))
        IN  /\ request.categoria = own.categoria
            /\ request.nivel_triage = own.nivel_triage
            /\ especialidad_norm = PyStrip(PyStr(own.especialidad))
            /\ \E k \in 1..Len(df_corr) :
                   /\ df_corr[k].categoria = request.categoria
                   /\ df_corr[k].nivel_triage = request.nivel_triage
                   /\ df_corr[k].especialidad_requerida = especialidad_norm
                   /\ recomendacion.servicios = df_corr[k].servicios_sugeridos

\* C26: build_correspondence_table runs the specialty matcher for a combination only when
\* the category tier returned no service and the specialty text is not empty: an entry
\* whose category is of the special set and has a match holds that match and a category
\* tag, and the entry of a rules row without a specialty is never a specialty match.
C26_SpecialtyTierOnlyWhenNeeded ==
    pc \in {"built", "queried"} =>
        /\ \A k \in 1..Len(df_corr) :
               LET pool == ServiceList(Subset(df_prestadores, df_corr[k].nivel_triage))
                   tier1 == CategoryTier(df_corr[k], pool, 7000, 2, "semantic")
               IN  tier1.servicios # <<>> =>
                       /\ df_corr[k].servicios_sugeridos = tier1.servicios
                       /\ df_corr[k].scores = tier1.scores
                       /\ df_corr[k].tipo_coincidencia = "ctg_semantic_match"
        /\ \A i \in 1..Len(rules) :
               IsNa(rules[i].especialidad) =>
                   LET own == TriageCombinations(<<rules[i]>>)[1]
                   IN  \A k \in 1..Len(df_corr) :
                           /\ df_corr[k].categoria = own.categoria
                           /\ df_corr[k].nivel_triage = own.nivel_triage
                           /\ df_corr[k].especialidad_requerida = Val(own.especialidad)
                           => df_corr[k].tipo_coincidencia
                                  \notin {"semantic_match", "fuzzy_match"}


-----------------------------------------------------------------------------
(* app.py and pages/2_recomendacion.py: the session state of the triage page *)
(* over its script runs, one run for each thing the user does.              *)

\* load_sintomas_from_excel, lines 100-139: the nested dictionary of the sheet, category
\* to symptom to modifiers.  A row without category or symptom is skipped and a missing
\* modifier is not added; the lists are read for membership only, so they are sets here.
load_sintomas_from_excel(df) ==
    LET usable == {i \in 1..Len(df) : ~IsNa(df[i].categoria) /\ ~IsNa(df[i].sintoma)}
        of_cat(cat) == {i \in usable : Val(df[i].categoria) = cat}
        of_sint(cat, sint) == {i \in of_cat(cat) : Val(df[i].sintoma) = sint}
    IN  [cat \in {Val(df[i].categoria) : i \in usable} |->
            [sint \in {Val(df[i].sintoma) : i \in of_cat(cat)} |->
                {Val(df[i].modificador) :
                    i \in {j \in of_sint(cat, sint) : ~IsNa(df[j].modificador)}}]]

\* symptoms_form, ui_blocks.py lines 387-496, on the values the three select boxes hand
\* back in this run (None for the placeholder option).  The result is the session state
\* it leaves, whether it returned True, and whether it ended the run with st.rerun().
\* list.index of a stored value that is not among the options of this run raises
\* ValueError, which the except branch answers by clearing the selection.  A valid
\* selection has its row in the sheet, so get_triage_decision returns its decision.
symptoms_form(state, df, categoria, sintoma, modificador) ==
    LET sintomas_triage == load_sintomas_from_excel(df)
        get_sintomas(cat) ==
            IF cat \in DOMAIN sintomas_triage THEN DOMAIN sintomas_triage[cat] ELSE {}
        get_modificadores(cat, sint) ==
            IF cat \in DOMAIN sintomas_triage /\ sint \in DOMAIN sintomas_triage[cat]
            THEN sintomas_triage[cat][sint] ELSE {}
        cleared(s) == [s EXCEPT !.selected_categoria = None, !.selected_sintoma = None,
                                !.selected_modificador = None]
        s1 == IF categoria # None THEN [state EXCEPT !.selected_categoria = categoria]
              ELSE cleared(state)
        sintoma_raises ==
            /\ s1.selected_categoria # None /\ s1.selected_sintoma # None
            /\ Val(s1.selected_sintoma) \notin get_sintomas(Val(s1.selected_categoria))
        s2 == IF s1.selected_categoria = None THEN s1
              ELSE IF sintoma # None THEN [s1 EXCEPT !.selected_sintoma = sintoma]
              ELSE [s1 EXCEPT !.selected_sintoma = None, !.selected_modificador = None]
        modificador_raises ==
            /\ s2.selected_sintoma # None /\ s2.selected_modificador # None
            /\ Val(s2.selected_modificador)
                   \notin get_modificadores(Val(s2.selected_categoria),
                                            Val(s2.selected_sintoma))
        s3 == IF s2.selected_sintoma = None THEN s2
              ELSE [s2 EXCEPT !.selected_modificador = modificador]
        all_selected == /\ s3.selected_categoria # None /\ s3.selected_sintoma # None
                        /\ s3.selected_modificador # None
        is_valid == Val(s3.selected_modificador)
                        \in get_modificadores(Val(s3.selected_categoria),
                                              Val(s3.selected_sintoma))
        triage_decision == get_triage_decision(df, Val(s3.selected_categoria),
                                               Val(s3.selected_sintoma),
                                               Val(s3.selected_modificador))
        completed == [s3 EXCEPT !.form_symptoms_completed = Cell(TRUE)]
    IN  IF sintoma_raises \/ modificador_raises
        THEN [state |-> cleared(s1), valid |-> FALSE, rerun |-> TRUE]
        ELSE IF ~all_selected THEN [state |-> s3, valid |-> FALSE, rerun |-> FALSE]
        ELSE IF ~is_valid
        THEN [state |-> [s3 EXCEPT !.form_symptoms_completed = Cell(FALSE)],
              valid |-> FALSE, rerun |-> FALSE]
        ELSE [state |-> [completed EXCEPT
                            !.decision_triage = Cell(triage_decision.triage),
                            !.decision_modalidad = Cell(triage_decision.modalidad),
                            !.decision_especialidad = Cell(triage_decision.especialidad)],
              valid |-> TRUE, rerun |-> FALSE]

\* The session after the initialisation of app.py, lines 30-89: every key of the triage is
\* None (form_inicio_completed is not set yet and reads as False), the tab is Inicio.  The
\* sheet has a row for each of two categories, each with a symptom of its own.
InitPage ==
    /\ pc = "open"
    /\ rules = <<[categoria |-> Cell(Data.Salud_mental_typed),
                  sintoma |-> Cell(Data.Dolor_raw),
                  modificador |-> Cell(Data.Ninguno_raw),
                  nivel_triage |-> Cell(Lit.T1),
                  modalidad |-> Cell(Data.Presencial_raw),
                  especialidad |-> Cell(Data.Psiquiatria_raw)],
                 [categoria |-> Cell(Data.Nariz_Oidos_raw),
                  sintoma |-> Cell(Data.sintoma_b),
                  modificador |-> Cell(Data.Ninguno_raw),
                  nivel_triage |-> Cell(Lit.T4),
                  modalidad |-> Cell(Data.Presencial_raw),
                  especialidad |-> NaN]>>
    /\ session_state = [current_tab_triage |-> "Inicio",
                        form_inicio_completed |-> None,
                        identificacion_paciente |-> None,
                        departamento |-> None,
                        ciudad |-> None,
                        selected_categoria |-> None,
                        selected_sintoma |-> None,
                        selected_modificador |-> None,
                        form_symptoms_completed |-> None,
                        decision_triage |-> None,
                        decision_modalidad |-> None,
                        decision_especialidad |-> None,
                        decision |-> None,
                        ubicacion_usuario |-> None,
                        form_location_completed |-> None,
                        triage_completed |-> None,
                        recommendation_step |-> FALSE]
    /\ request = Idle
    /\ match_in = Idle /\ sim = Idle /\ match_out = Idle /\ df_sintomas = Idle
    /\ df_prestadores = Idle /\ params = Idle /\ df_corr = Idle
    /\ recomendacion = Idle /\ providers_filtered = Idle /\ raw_df = Idle
    /\ servicios_prestadores = Idle /\ df_clean = Idle
    /\ merge_in = Idle /\ df_merged = Idle /\ raw_text = Idle /\ cleaned = Idle
    /\ columns = Idle /\ combinations = Idle /\ source = Idle /\ cache = Idle
    /\ session = Idle /\ geo = Idle

\* A run of app.py with the tab Inicio selected, lines 108-132, and identification_form,
\* ui_blocks.py lines 280-328.  A run follows one thing the user did: nothing but opening
\* the tab, or, with the tab's widgets on the screen since the run before, a press of
\* "Consultar Usuario" on a form that passes the validation or not, or of "Seguir al
\* Formulario".  After st.rerun() the next run is that of the stored tab.
TriageInicio ==
    /\ \E event \in {"none", "submit", "submit_invalid", "seguir"} :
          LET tab == [session_state EXCEPT
                         !.current_tab_triage = "Inicio",
                         !.form_inicio_completed = IF @ = None THEN Cell(FALSE) ELSE @]
          IN  /\ pc = "rerun" => /\ event = "none"
                                 /\ session_state.current_tab_triage = "Inicio"
              /\ event # "none" => /\ pc = "triage"
                                   /\ session_state.current_tab_triage = "Inicio"
              /\ event = "seguir" => session_state.form_inicio_completed = Cell(TRUE)
              /\ session_state' =
                     CASE event = "seguir" ->
                              [tab EXCEPT !.current_tab_triage = "Formulario"]
                       [] event = "submit" ->
                              [tab EXCEPT !.identificacion_paciente =
                                              Cell(<<"C", "C", "-", "1">>),
                                          !.departamento = Cell(Data.ANTIOQUIA_typed),
                                          !.ciudad = Cell(Data.Medellin_typed),
                                          !.form_inicio_completed = Cell(TRUE)]
                       [] OTHER -> tab
              /\ pc' = IF event \in {"seguir", "submit"} THEN "rerun" ELSE "triage"
    /\ UNCHANGED <<match_in, sim, match_out, df_sintomas, df_prestadores, params, df_corr,
                   request, recomendacion, providers_filtered, raw_df,
                   servicios_prestadores, df_clean>>
    /\ UNCHANGED <<merge_in, df_merged, raw_text, cleaned, columns, combinations, source,
                   cache, session, rules, geo>>

\* A run of app.py with the tab Formulario selected, lines 133-203.  The user has opened
\* the tab, or has changed one of the select boxes that were on the screen, or has pressed
\* "Volver al Inicio" or "Ubicación" (shown for a valid selection only); a select box the
\* user did not touch hands back the stored selection.
TriageFormulario ==
    /\ \E widget \in {"none", "categoria", "sintoma", "modificador", "volver", "ubicacion"} :
       \E value \in {None} \cup {rules[i][c] : i \in 1..Len(rules),
                                              c \in {"categoria", "sintoma", "modificador"}} :
          LET sintomas_triage == load_sintomas_from_excel(rules)
              stored == session_state
              tab == [stored EXCEPT !.current_tab_triage = "Formulario"]
              form == symptoms_form(
                          tab, rules,
                          IF widget = "categoria" THEN value ELSE stored.selected_categoria,
                          IF widget = "sintoma" THEN value ELSE stored.selected_sintoma,
                          IF widget = "modificador" THEN value
                          ELSE stored.selected_modificador)
              level == form.state.decision_triage
              decided ==
                  IF form.valid /\ level # None /\ Val(level) # <<>>
                  THEN [form.state EXCEPT !.decision =
                           CASE Val(level) \in {Lit.T1, Lit.T2} -> Cell("Emergencia")
                             [] Val(level) = Lit.T3 -> Cell("Urgencias")
                             [] Val(level) = Lit.T4 -> Cell("Cita Prioritaria")
                             [] Val(level) = Lit.T5 -> Cell("Cita Programada")
                             [] OTHER -> @]
                  ELSE form.state
          IN  /\ pc = "rerun" => /\ widget = "none"
                                 /\ stored.current_tab_triage = "Formulario"
              /\ widget # "none" => /\ pc = "triage"
                                    /\ stored.current_tab_triage = "Formulario"
                                    /\ stored.form_inicio_completed = Cell(TRUE)
              /\ widget \in {"none", "volver", "ubicacion"} => value = None
              /\ widget = "categoria" =>
                    /\ value # stored.selected_categoria
                    /\ value # None => Val(value) \in DOMAIN sintomas_triage
              /\ widget = "sintoma" =>
                    /\ stored.selected_categoria # None
                    /\ value # stored.selected_sintoma
                    /\ value # None =>
                           Val(value) \in DOMAIN sintomas_triage[Val(stored.selected_categoria)]
              /\ widget = "modificador" =>
                    /\ stored.selected_sintoma # None
                    /\ value # stored.selected_modificador
                    /\ value # None =>
                           Val(value) \in sintomas_triage[Val(stored.selected_categoria)]
                                                         [Val(stored.selected_sintoma)]
              /\ IF stored.form_inicio_completed # Cell(TRUE)
                 THEN /\ session_state' = tab
                      /\ pc' = "triage"
                 ELSE /\ widget = "ubicacion" => form.valid
                      /\ session_state' =
                             CASE form.rerun -> form.state
                               [] ~form.rerun /\ widget = "volver" ->
                                      [decided EXCEPT !.current_tab_triage = "Inicio"]
                               [] ~form.rerun /\ widget = "ubicacion" ->
                                      [decided EXCEPT
                                          !.current_tab_triage = "Mapa ubicación"]
                               [] OTHER -> decided
                      /\ pc' = IF form.rerun \/ widget \in {"volver", "ubicacion"}
                               THEN "rerun" ELSE "triage"
    /\ UNCHANGED <<match_in, sim, match_out, df_sintomas, df_prestadores, params, df_corr,
                   request, recomendacion, providers_filtered, raw_df,
                   servicios_prestadores, df_clean>>
    /\ UNCHANGED <<merge_in, df_merged, raw_text, cleaned, columns, combinations, source,
                   cache, session, rules, geo>>

\* A run of app.py with the tab Mapa ubicación selected, lines 204-378.  The three ways
\* of locating the user (a click on the map, the device, a typed address; lines 227-297)
\* are one event here: a location other than the stored one is stored and the run ends
\* with st.rerun().  Otherwise the check box decides form_location_completed when there
\* is a location, "Volver al Formulario" ends the run, and triage_completed is computed
\* from the three flags.  The check box keeps its value in a run that follows a press of
\* a button; in a run that follows anything else the user may have changed it.  The
\* section of lines 385-515 calls utils.recommendation_engine, a module the repository
\* does not have at that path, and stores only the providers it shows.
TriageMapa ==
    /\ \E event \in {"none", "locate", "volver", "seguir"} :
       \E new_location \in {PointUser, PointFar} :
       \E location_confirmed \in BOOLEAN :
          LET stored == session_state
              tab == [stored EXCEPT !.current_tab_triage = "Mapa ubicación"]
              confirmed == IF tab.ubicacion_usuario # None
                           THEN [tab EXCEPT !.form_location_completed =
                                                Cell(location_confirmed)]
                           ELSE tab
              completed == [confirmed EXCEPT !.triage_completed =
                               Cell(/\ confirmed.form_inicio_completed = Cell(TRUE)
                                    /\ confirmed.form_symptoms_completed = Cell(TRUE)
                                    /\ confirmed.form_location_completed = Cell(TRUE))]
          IN  /\ pc = "rerun" => /\ event = "none"
                                 /\ stored.current_tab_triage = "Mapa ubicación"
              /\ event # "none" => /\ pc = "triage"
                                   /\ stored.current_tab_triage = "Mapa ubicación"
                                   /\ stored.form_inicio_completed = Cell(TRUE)
                                   /\ location_confirmed
                                          = (stored.form_location_completed = Cell(TRUE))
              /\ event = "locate" => Cell(new_location) # stored.ubicacion_usuario
              /\ event # "locate" => new_location = PointUser
              /\ event = "seguir" => stored.triage_completed = Cell(TRUE)
              /\ session_state' =
                     CASE stored.form_inicio_completed # Cell(TRUE) -> tab
                       [] event = "locate" ->
                              [tab EXCEPT !.ubicacion_usuario = Cell(new_location)]
                       [] event = "volver" ->
                              [confirmed EXCEPT !.current_tab_triage = "Formulario"]
                       [] event = "seguir" ->
                              [completed EXCEPT !.recommendation_step = TRUE]
                       [] OTHER -> completed
              /\ pc' = IF event = "none" THEN "triage" ELSE "rerun"
    /\ UNCHANGED <<match_in, sim, match_out, df_sintomas, df_prestadores, params, df_corr,
                   request, recomendacion, providers_filtered, raw_df,
                   servicios_prestadores, df_clean>>
    /\ UNCHANGED <<merge_in, df_merged, raw_text, cleaned, columns, combinations, source,
                   cache, session, rules, geo>>

\* A run of pages/2_recomendacion.py, lines 42-92: st.stop() unless triage_completed, and
\* otherwise the query it makes of the session state.  The field selected records the
\* selection the session held when the page asked.
RecomendacionPage ==
    /\ pc # "rerun"
    /\ IF session_state.triage_completed # Cell(TRUE)
       THEN UNCHANGED request
       ELSE request' = [categoria |-> text_cleaning(session_state.selected_categoria),
                        nivel_triage |-> session_state.decision_triage,
                        especialidad |-> session_state.decision_especialidad,
                        selected |-> <<session_state.selected_categoria,
                                       session_state.selected_sintoma,
                                       session_state.selected_modificador>>]
    /\ pc' = "recomendacion"
    /\ UNCHANGED <<match_in, sim, match_out, df_sintomas, df_prestadores, params, df_corr,
                   recomendacion, providers_filtered, raw_df, servicios_prestadores,
                   df_clean>>
    /\ UNCHANGED <<merge_in, df_merged, raw_text, cleaned, columns, combinations, source,
                   cache, session, rules, session_state, geo>>

NextPage ==
    \/ TriageInicio
    \/ TriageFormulario
    \/ TriageMapa
    \/ RecomendacionPage

SpecPage == InitPage /\ [][NextPage]_vars

====
